---- MODULE Spec2Model ----
(***************************************************************************)
(* Model of the bi-chatbot NL2SQL pipeline: schema discovery, SQL          *)
(* generation (parse / validate / normalize), execution with a preview     *)
(* cap, answer synthesis, conversation memory and the orchestrator         *)
(* (ChatbotService.process_question) that sequences them.                  *)
(*                                                                         *)
(* SQL text is a sequence of tokens.  A token is a keyword, a separator,   *)
(* a quote character or a piece of other text; "LIMIT" stands for a        *)
(* trailing "LIMIT n" clause and "TOP" for "TOP n".                        *)
(***************************************************************************)
EXTENDS Integers, Sequences, FiniteSets, Bags, TLC

\* ------------------------------------------------------------------ bounds
MaxLen == 3
MaxTurns == 2
ExtraRows == 1
MaxColumns == 2
MaxEdits == 1
MaxReloads == 2
TimeoutSteps == 3
MaxMessages == 2
MaxClock == 3
MaxSends == 3
PREVIEW_ROWS == 20
API_TIMEOUT == 30000

\* ------------------------------------------------------------ SQL as tokens
Tokens == {"SELECT", "WITH", "LIMIT", "TOP", ";", "DROP", "'", "x",
           "parents.week", "CONCAT"}

RECURSIVE SeqsUpTo(_, _)
SeqsUpTo(S, n) ==
    IF n = 0 THEN {<<>>}
    ELSE LET shorter == SeqsUpTo(S, n - 1)
         IN  shorter \cup {Append(s, t) : s \in {r \in shorter : Len(r) = n - 1}, t \in S}

SqlTexts == SeqsUpTo(Tokens, MaxLen)

StatementKeywords == {"SELECT", "WITH"}

\* The statement separator, DDL/DML keywords: the forbidden patterns.
FORBIDDEN_PATTERNS == {";", "DROP"}

StartsWithSelect(sql) == Len(sql) > 0 /\ sql[1] \in StatementKeywords

\* A forbidden regular expression is searched in the whole text.
MatchesForbidden(sql) == \E i \in 1..Len(sql) : sql[i] \in FORBIDDEN_PATTERNS

\* validate_sql inside _parse_sql_response: raises SQLValidationError on
\* forbidden constructs.  TRUE = no error raised.
validate_sql(sql) == ~MatchesForbidden(sql)

\* A validator whose patterns are anchored at the start of the text
\* (re.match where re.search is meant).
ValidateAnchored(sql) ==
    IF ~StartsWithSelect(sql) THEN "Rejected"
    ELSE IF sql[1] \in FORBIDDEN_PATTERNS THEN "Rejected"
    ELSE "Ok"

\* guardrails.validate_sql_against_semantic_rules: SELECT/WITH-only SQL and
\* regex-based forbidden patterns.
validate_sql_against_semantic_rules(sql) ==
    IF ~StartsWithSelect(sql) THEN "Rejected"
    ELSE IF MatchesForbidden(sql) THEN "Rejected"
    ELSE "Ok"

\* ------------------------------------------------- parsing the model output
\* The raw model response is a record [kind, body]: kind "json" is a JSON
\* envelope whose sql field is body, kind "text" is free text.
HasStatement(text) == \E i \in 1..Len(text) : text[i] \in StatementKeywords

FirstKeyword(text) ==
    CHOOSE i \in 1..Len(text) :
        /\ text[i] \in StatementKeywords
        /\ \A j \in 1..(i - 1) : text[j] \notin StatementKeywords

\* End of the statement that starts at position i: the token before the next
\* separator, or the end of the text.
StatementEnd(text, i) ==
    IF \E k \in i..Len(text) : text[k] = ";"
    THEN (CHOOSE k \in i..Len(text) :
              text[k] = ";" /\ \A j \in i..(k - 1) : text[j] # ";") - 1
    ELSE Len(text)

\* _extract_select_sql: the first SELECT.../WITH... statement of free text.
_extract_select_sql(text) ==
    LET i == FirstKeyword(text) IN SubSeq(text, i, StatementEnd(text, i))

\* The candidate _parse_sql_response works on, before it validates it.
ParsedCandidate(raw) ==
    IF raw.kind = "json" THEN raw.body
    ELSE IF HasStatement(raw.body) THEN _extract_select_sql(raw.body)
    ELSE raw.body

\* _parse_sql_response: [ok, sql]; ok = FALSE when validate_sql raised.
_parse_sql_response(raw) ==
    LET cand == ParsedCandidate(raw)
    IN  [ok |-> validate_sql(cand), sql |-> cand]

\* ------------------------------------------------------------ normalization
\* _convert_limit_to_top: SELECT ... LIMIT n  ->  SELECT TOP n ...
_convert_limit_to_top(sql) ==
    IF Len(sql) >= 2 /\ sql[1] = "SELECT" /\ sql[Len(sql)] = "LIMIT"
    THEN <<"SELECT", "TOP">> \o SubSeq(sql, 2, Len(sql) - 1)
    ELSE sql

\* _apply_sql_fixes: the table of known bad patterns and their fixes.
SqlFix(tok) == IF tok = "parents.week" THEN "fixed(parents.week)" ELSE tok

_apply_sql_fixes(sql) == [i \in 1..Len(sql) |-> SqlFix(sql[i])]

RECURSIVE EscapeQuotes(_)
EscapeQuotes(text) ==
    IF text = <<>> THEN <<>>
    ELSE IF Head(text) = "'" THEN <<"'", "'">> \o EscapeQuotes(Tail(text))
    ELSE <<Head(text)>> \o EscapeQuotes(Tail(text))

EnsureSelectUnescaped(sql) ==
    IF StartsWithSelect(sql) THEN sql
    ELSE <<"SELECT", "'">> \o sql \o <<"'">>

\* _ensure_select_statement: wraps plain text into SELECT '...'.
_ensure_select_statement(sql) ==
    IF StartsWithSelect(sql) THEN sql
    ELSE <<"SELECT", "'">> \o EscapeQuotes(sql) \o <<"'">>

\* The normalization of AIService.generate_sql.
NormalizeSql(sql) ==
    _ensure_select_statement(_apply_sql_fixes(_convert_limit_to_top(sql)))

\* sql_generator.translate_sql_functions: cross-database function names.
TranslateFunction(tok) == IF tok = "CONCAT" THEN "engine(CONCAT)" ELSE tok

translate_sql_functions(sql) == [i \in 1..Len(sql) |-> TranslateFunction(sql[i])]

\* execute_query: _convert_limit_to_top and _ensure_select_statement applied
\* again as last-resort guards.
LastResortGuards(sql) == _ensure_select_statement(_convert_limit_to_top(sql))

\* The statement AIService.execute_query runs for the sql it is handed.
ExecutionGuards(sql) == translate_sql_functions(LastResortGuards(sql))

\* ------------------------------------------------------------ the inputs
Users == {"u1", "u2"}
Questions == {"q1"}

\* What a schema source holds: a usable schema, an empty one, or a file that
\* is missing or does not parse.
SourceStates == {"ok", "empty", "error"}
Tiers == {"meta", "ontology", "introspection"}

NoSql == <<>>

\* Responses of the model to the SQL prompt.
RawSamples ==
    { [kind |-> "text", body |-> <<"x">>],
      [kind |-> "text", body |-> <<"x", "SELECT", "x">>],
      [kind |-> "json", body |-> <<"SELECT", "x">>],
      [kind |-> "json", body |-> <<"SELECT", "x", "LIMIT">>],
      [kind |-> "json", body |-> <<"SELECT", ";", "DROP">>] }

\* The model call timed out or the service is unreachable.
Unavailable == [kind |-> "unavailable", body |-> <<>>]

\* Outputs of the prompt pack: answer, sql_export, sql_ratio.
PackSqls == { <<"SELECT", "export">>, <<"SELECT", "export", ";", "DROP">> }

PackOutputs ==
    [ok : {TRUE}, answer : {"", "pack_short"}, sql_export : PackSqls \cup {NoSql},
     sql_ratio : {<<"SELECT", "ratio">>}]

\* generate_pack_output raised, or no pack ran.
NoPack == [ok |-> FALSE, answer |-> "", sql_export |-> NoSql, sql_ratio |-> NoSql]

\* Sizes of the true result set of a statement.
RowCounts == {0, 1} \cup (PREVIEW_ROWS..(PREVIEW_ROWS + ExtraRows))

\* Outcomes of one chat-completion call for the answer.
LlmOutcomes == {"sentence", "generic", "empty", "unavailable"}

ErrorKinds == {"SchemaUnavailable", "GenerationUnavailable", "GenerationRejected",
               "ExecutionFailed", "SynthesisDegenerate"}

Min(a, b) == IF a < b THEN a ELSE b

\* ---------------------------------------------------------------- state
VARIABLES
    sources,         \* what each schema source holds
    PACK,            \* config.PACK is non-empty
    svc,             \* "init", "ready" or "fatal"
    tried,           \* schema sources attempted so far, in order
    schema_info,     \* the source of the cached snapshot, or "none"
    session_memory,  \* user id -> transcript
    stage,           \* the request's state
    rq,              \* the request: user, question, context read
    path,            \* "none", "pack" or "legacy"
    pack_out,        \* output of generate_pack_output
    raw,             \* outcome of _call_openai_for_sql
    gen,             \* SQLGenerationResult
    validated,       \* the statement validate_sql accepted for this request
    handed,          \* the statement handed to execute_query
    executed,        \* the statement run on the database
    tx,              \* transaction of the execution
    db_rows,         \* size of the true result set
    exec,            \* ExecutionResult
    answer,          \* the final answer
    llm_calls,       \* outbound model calls of this request, by purpose
    response,        \* the QueryResponse returned
    fn_pc, fn_in, fn_out,
    threads,
    revision, heap, schema_cache, loading, readers, loads,
    token, fetch,
    page, sidebarChart, bot_messages, bot_data,
    messages, isThinking, activeMessageId, isAnalyticsExpanded, userLockedChart,
    clock, asks, answered, ask_response,
    messageInput, isLoading, chatMessages, inflight, send_calls,
    savedQueries, showLoginScreen, appUser,
    Chat,            \* state of the Chat page: messages, sql, data, loading, error
    value,           \* state of ChatInput: the text typed
    requests,        \* the ask requests of the Chat page: pending, ok or failed
    localStorage,    \* authToken, tokenType and userInfo of the vanilla front end
    location,        \* window.location: "login.html" or "index.html"
    loginScript,     \* login-script.js: where handleLogin and verifyTokenAndRedirect are
    authToken,       \* BiChatbot.authToken
    useAuth,         \* state of the useAuth hook: token, user, loading, error
    access_token,    \* localStorage item 'access_token' of the React front end
    me_calls,        \* the me(token) calls of the fetchMe effect, with their canceled flag
    sign_ins         \* signIn calls awaiting login, and signIn calls made

schemaVars == <<sources, PACK, svc, tried, schema_info>>
execVars == <<handed, executed, tx, db_rows, exec>>
reqVars == <<stage, rq, path, pack_out, raw, gen, validated, answer, llm_calls, response>>
fnVars == <<fn_pc, fn_in, fn_out>>
reloadVars == <<revision, heap, schema_cache, loading, readers, loads>>
fetchVars == <<token, fetch>>
sidebarVars == <<sidebarChart, bot_messages, bot_data>>
appVars == <<messages, isThinking, activeMessageId, isAnalyticsExpanded, userLockedChart,
             clock, asks, answered, ask_response>>
vanillaVars == <<messageInput, isLoading, chatMessages, inflight, send_calls>>
sessionVars == <<savedQueries, showLoginScreen, appUser>>
chatPageVars == <<Chat, value, requests>>
loginVars == <<localStorage, location, loginScript, authToken>>
useAuthVars == <<useAuth, access_token, me_calls, sign_ins>>
siteVars == <<chatPageVars, loginVars, useAuthVars>>
pageVars == <<page, siteVars, vanillaVars, sessionVars>>
clientVars == <<fetchVars, pageVars, sidebarVars, appVars>>
serverVars == <<schemaVars, session_memory, reqVars, execVars, fnVars, threads, reloadVars>>
sideVars == <<threads, reloadVars, clientVars>>
auxVars == <<fnVars, sideVars>>
vars == <<schemaVars, session_memory, reqVars, execVars, auxVars>>

NoRaw == [kind |-> "none", body |-> <<>>]
NoGen == [success |-> FALSE, sql |-> NoSql, error |-> "none"]
NoExec == [success |-> FALSE, rows |-> <<>>, row_count |-> 0, columns |-> 0, error |-> "none"]
NoAnswer == [kind |-> "none", n |-> 0, value |-> <<>>]
NoResponse ==
    [answer |-> NoAnswer, sql |-> NoSql, data |-> <<>>, error |-> "none", message |-> ""]
NoRequest == [user |-> "u1", question |-> "q1", context |-> <<>>]
NoCalls == [pack |-> 0, sql |-> 0, answer |-> 0]

RequestIdle ==
    /\ stage = "IDLE"
    /\ rq = NoRequest
    /\ path = "none"
    /\ pack_out = NoPack
    /\ raw = NoRaw
    /\ gen = NoGen
    /\ validated = NoSql
    /\ handed = NoSql
    /\ executed = NoSql
    /\ tx = "none"
    /\ db_rows = 0
    /\ exec = NoExec
    /\ answer = NoAnswer
    /\ llm_calls = NoCalls
    /\ response = NoResponse

FnOff == fn_pc = "off" /\ fn_in = NoSql /\ fn_out = "none"

\* ---------------------------------------------------------- schema discovery
\* _analyze_database_schema: META schema first, then the ontology merged with
\* the client mapping, then introspection of config.BUSINESS_TABLES.
SchemaOrder == <<"meta", "ontology", "introspection">>

NextSourceReversed(attempts) == SchemaOrder[3 - Len(attempts)]

NextSource(attempts) == SchemaOrder[Len(attempts) + 1]

SourceYieldsUnlessError(tier) == sources[tier] # "error"

\* A source is used when it is there and not empty.
SourceYields(tier) == sources[tier] = "ok"

\* All three sources failed: SchemaUnavailable, the service does not start.
AfterFailedSource(attempts) == IF Len(attempts) = 3 THEN "fatal" ELSE "init"

TrySource(tier) ==
    /\ svc = "init"
    /\ Len(tried) < 3
    /\ NextSource(tried) = tier
    /\ tried' = Append(tried, tier)
    /\ IF SourceYields(tier)
       THEN schema_info' = tier /\ svc' = "ready"
       ELSE /\ schema_info' = schema_info
            /\ svc' = AfterFailedSource(tried')
    /\ UNCHANGED <<sources, PACK, session_memory, reqVars, execVars, auxVars>>

_load_schema_from_meta_yaml == TrySource("meta")
_load_schema_from_yaml == TrySource("ontology")
_fallback_schema_analysis == TrySource("introspection")

\* ------------------------------------------------------- conversation memory
\* session_memory.get_context_text: the stored transcript of the user.
get_context_text(user) == session_memory[user]

OverwriteExchange(memory, user, question, ans) ==
    [memory EXCEPT ![user] =
        <<[user_id |-> user, question |-> question, answer |-> ans]>>]

\* session_memory.add_exchange
add_exchange(memory, user, question, ans) ==
    [memory EXCEPT ![user] =
        Append(@, [user_id |-> user, question |-> question, answer |-> ans])]

TotalTurns == Len(session_memory["u1"]) + Len(session_memory["u2"])

reset_all_sessions(user) ==
    /\ session_memory' = [u \in Users |-> <<>>]
    /\ UNCHANGED <<schemaVars, reqVars, execVars, auxVars>>

\* session_memory.reset_session
reset_session(user) ==
    /\ session_memory' = [session_memory EXCEPT ![user] = <<>>]
    /\ UNCHANGED <<schemaVars, reqVars, execVars, auxVars>>

\* ------------------------------------------------------------ SQL generation
GenerateSqlHidesOutage(outcome) ==
    IF outcome = Unavailable
    THEN [success |-> FALSE, sql |-> NoSql, error |-> "GenerationRejected"]
    ELSE LET parsed == _parse_sql_response(outcome)
         IN  IF ~parsed.ok
             THEN [success |-> FALSE, sql |-> NoSql, error |-> "GenerationRejected"]
             ELSE [success |-> TRUE, sql |-> NormalizeSql(parsed.sql), error |-> "none"]

\* AIService.generate_sql for one outcome of _call_openai_for_sql:
\* Unavailable, or the raw response.
generate_sql(outcome) ==
    IF outcome = Unavailable
    THEN [success |-> FALSE, sql |-> NoSql, error |-> "GenerationUnavailable"]
    ELSE LET parsed == _parse_sql_response(outcome)
         IN  IF ~parsed.ok
             THEN [success |-> FALSE, sql |-> NoSql, error |-> "GenerationRejected"]
             ELSE [success |-> TRUE, sql |-> NormalizeSql(parsed.sql), error |-> "none"]

\* The statement validate_sql accepted while generate_sql ran.
ValidatedBy(outcome) ==
    IF outcome # Unavailable /\ _parse_sql_response(outcome).ok
    THEN _parse_sql_response(outcome).sql
    ELSE NoSql

\* ------------------------------------------------------------------ execution
FetchAll(result, n) == result

\* cursor.fetchmany(n)
FetchMany(result, n) == SubSeq(result, 1, Min(Len(result), n))

ResultSet(n) == [i \in 1..n |-> i]

\* The payload of AIService.execute_query for a result set of n rows.
SelectPayload(n) ==
    LET rows == FetchMany(ResultSet(n), PREVIEW_ROWS)
    IN  [success |-> TRUE, rows |-> rows, row_count |-> Len(rows), columns |-> 1,
         error |-> "none"]

DmlPayload(n) ==
    [success |-> TRUE, rows |-> <<>>, row_count |-> n, columns |-> 0, error |-> "none"]

ErrorPayload ==
    [success |-> FALSE, rows |-> <<>>, row_count |-> 0, columns |-> 0,
     error |-> "ExecutionFailed"]

OnExceptionLeaveOpen(t) == t

\* except: session.rollback()
OnException(t) == "rolled_back"

\* ------------------------------------------------------------------ synthesis
\* A result of one row with one column is a single scalar value.
IsSingleScalar(results) == results.row_count = 1 /\ results.columns = 1

\* The deterministic answer: the row count, and the value when the result is
\* a single scalar.
_format_explicit_answer(results) ==
    [kind |-> "explicit", n |-> results.row_count,
     value |-> IF IsSingleScalar(results) THEN <<results.rows[1]>> ELSE <<>>]

\* The default message for an empty dataset.
NoDataMessage == [kind |-> "no_data", n |-> 0, value |-> <<>>]

\* A sentence written by the model.
ModelSentence == [kind |-> "llm", n |-> 0, value |-> <<>>]

GenerateResponseNoFallback(results, o1, o2) ==
    IF results.row_count = 0
    THEN [answer |-> NoDataMessage, calls |-> 0]
    ELSE IF o1 = "sentence"
    THEN [answer |-> ModelSentence, calls |-> 1]
    ELSE IF o1 = "unavailable"
    THEN [answer |-> _format_explicit_answer(results), calls |-> 1]
    ELSE IF o2 = "sentence"
    THEN [answer |-> ModelSentence, calls |-> 2]
    ELSE [answer |-> NoAnswer, calls |-> 2]

GenerateResponseNoDefault(results, o1, o2) ==
    IF o1 = "sentence"
    THEN [answer |-> ModelSentence, calls |-> 1]
    ELSE IF o1 = "unavailable"
    THEN [answer |-> _format_explicit_answer(results), calls |-> 1]
    ELSE IF o2 = "sentence"
    THEN [answer |-> ModelSentence, calls |-> 2]
    ELSE [answer |-> _format_explicit_answer(results), calls |-> 2]

\* AIService.generate_response for the outcomes o1, o2 of the first and the
\* stricter second model call: [answer, calls].
generate_response(results, o1, o2) ==
    IF results.row_count = 0
    THEN [answer |-> NoDataMessage, calls |-> 0]
    ELSE IF o1 = "sentence"
    THEN [answer |-> ModelSentence, calls |-> 1]
    ELSE IF o1 = "unavailable"
    THEN [answer |-> _format_explicit_answer(results), calls |-> 1]
    ELSE IF o2 = "sentence"
    THEN [answer |-> ModelSentence, calls |-> 2]
    ELSE [answer |-> _format_explicit_answer(results), calls |-> 2]

\* ---------------------------------------------------------------- orchestrator
ErrorMessage(kind) ==
    CASE kind = "GenerationUnavailable" -> "msg_generation_unavailable"
      [] kind = "GenerationRejected" -> "msg_generation_rejected"
      [] kind = "ExecutionFailed" -> "msg_execution_failed"
      [] OTHER -> "msg_error"

ErrorResponseNoKind(kind) ==
    [answer |-> NoAnswer, sql |-> NoSql, data |-> <<>>, error |-> "none",
     message |-> ErrorMessage(kind)]

\* ChatbotService._error_response
_error_response(kind) ==
    [answer |-> NoAnswer, sql |-> NoSql, data |-> <<>>, error |-> kind,
     message |-> ErrorMessage(kind)]

\* process_question: entry, reads the conversation context.
ReceiveQuestion(user, question) ==
    /\ svc = "ready"
    /\ stage \in {"IDLE", "RETURNED", "ERRORED"}
    /\ TotalTurns < MaxTurns
    /\ stage' = "RECEIVED"
    /\ rq' = [user |-> user, question |-> question, context |-> get_context_text(user)]
    /\ path' = "none"
    /\ pack_out' = NoPack
    /\ raw' = NoRaw
    /\ gen' = NoGen
    /\ validated' = NoSql
    /\ handed' = NoSql
    /\ executed' = NoSql
    /\ tx' = "none"
    /\ db_rows' = 0
    /\ exec' = NoExec
    /\ answer' = NoAnswer
    /\ llm_calls' = NoCalls
    /\ response' = NoResponse
    /\ UNCHANGED <<schemaVars, session_memory, auxVars>>

PackUsable(out) == out.ok /\ out.sql_export # NoSql

\* process_question: the prompt pack, tried when config.PACK is set.
PackAttempt ==
    /\ stage = "RECEIVED"
    /\ PACK
    /\ \E out \in PackOutputs \cup {NoPack} :
          /\ path' = IF PackUsable(out) THEN "pack" ELSE "legacy"
          /\ pack_out' = out
    /\ stage' = "PACK_ATTEMPT"
    /\ llm_calls' = [llm_calls EXCEPT !.pack = @ + 1]
    /\ UNCHANGED <<schemaVars, session_memory, rq, raw, gen, validated, answer,
                   response, execVars, auxVars>>

GenerateSqlRetried ==
    /\ \/ stage = "RECEIVED" /\ ~PACK
       \/ stage = "PACK_ATTEMPT" /\ path = "legacy"
       \/ stage = "ERRORED" /\ gen.error = "GenerationUnavailable" /\ llm_calls.sql < 2
    /\ \E outcome \in RawSamples \cup {Unavailable} :
          LET result == generate_sql(outcome)
          IN  /\ raw' = outcome
              /\ gen' = result
              /\ validated' = ValidatedBy(outcome)
              /\ IF result.success
                 THEN stage' = "SQL_GENERATED" /\ response' = response
                 ELSE stage' = "ERRORED" /\ response' = _error_response(result.error)
    /\ path' = "legacy"
    /\ llm_calls' = [llm_calls EXCEPT !.sql = @ + 1]
    /\ UNCHANGED <<schemaVars, session_memory, rq, pack_out, answer, execVars, auxVars>>

\* process_question: legacy step 1, _generate_sql.
GenerateSql ==
    /\ \/ stage = "RECEIVED" /\ ~PACK
       \/ stage = "PACK_ATTEMPT" /\ path = "legacy"
    /\ \E outcome \in RawSamples \cup {Unavailable} :
          LET result == generate_sql(outcome)
          IN  /\ raw' = outcome
              /\ gen' = result
              /\ validated' = ValidatedBy(outcome)
              /\ IF result.success
                 THEN stage' = "SQL_GENERATED" /\ response' = response
                 ELSE stage' = "ERRORED" /\ response' = _error_response(result.error)
    /\ path' = "legacy"
    /\ llm_calls' = [llm_calls EXCEPT !.sql = @ + 1]
    /\ UNCHANGED <<schemaVars, session_memory, rq, pack_out, answer, execVars, auxVars>>

\* The statement process_question hands to _execute_query.
SqlToExecute == IF path = "pack" THEN pack_out.sql_export ELSE gen.sql

\* execute_query: guards applied, statement sent to the database.
ExecuteBegin ==
    /\ \/ stage = "SQL_GENERATED"
       \/ stage = "PACK_ATTEMPT" /\ path = "pack"
    /\ tx = "none"
    /\ handed' = SqlToExecute
    /\ executed' = ExecutionGuards(SqlToExecute)
    /\ tx' = "open"
    /\ stage' = "EXECUTING"
    /\ UNCHANGED <<schemaVars, session_memory, rq, path, pack_out, raw, gen, validated,
                   answer, llm_calls, response, db_rows, exec, auxVars>>

\* execute_query: the database answers or raises.
ExecuteFinish ==
    /\ stage = "EXECUTING"
    /\ \/ \E n \in RowCounts :
             /\ db_rows' = n
             /\ IF StartsWithSelect(executed)
                THEN exec' = SelectPayload(n) /\ tx' = tx
                ELSE exec' = DmlPayload(n) /\ tx' = "committed"
             /\ stage' = "EXECUTED"
             /\ response' = response
       \/ /\ db_rows' = db_rows
          /\ exec' = ErrorPayload
          /\ tx' = OnException(tx)
          /\ stage' = "ERRORED"
          /\ response' = _error_response("ExecutionFailed")
    /\ UNCHANGED <<schemaVars, session_memory, rq, path, pack_out, raw, gen, validated,
                   answer, llm_calls, handed, executed, auxVars>>

FinalAnswerIgnoringPath(p, out, generated) ==
    IF out.answer # "" THEN [kind |-> out.answer, n |-> 0, value |-> <<>>] ELSE generated

\* The pack's short answer when the pack path ran and gave one, else the
\* answer of generate_response.
FinalAnswer(p, out, generated) ==
    IF p = "pack" /\ out.answer # ""
    THEN [kind |-> out.answer, n |-> 0, value |-> <<>>]
    ELSE generated

\* process_question: the answer.
Synthesize ==
    /\ stage = "EXECUTED"
    /\ \E o1 \in LlmOutcomes, o2 \in LlmOutcomes :
          LET g == generate_response(exec, o1, o2)
              viaModel == ~(path = "pack" /\ pack_out.answer # "")
          IN  /\ answer' = FinalAnswer(path, pack_out, g.answer)
              /\ llm_calls' = [llm_calls EXCEPT !.answer = IF viaModel THEN g.calls ELSE 0]
    /\ stage' = "SYNTHESIZED"
    /\ UNCHANGED <<schemaVars, session_memory, rq, path, pack_out, raw, gen, validated,
                   response, execVars, auxVars>>

\* process_question: session_memory.add_exchange.
Record ==
    /\ stage = "SYNTHESIZED"
    /\ session_memory' = add_exchange(session_memory, rq.user, rq.question, answer)
    /\ stage' = "RECORDED"
    /\ UNCHANGED <<schemaVars, rq, path, pack_out, raw, gen, validated, answer, llm_calls,
                   response, execVars, auxVars>>

ReturnUnrecorded ==
    /\ stage \in {"SYNTHESIZED", "RECORDED"}
    /\ response' = [answer |-> answer, sql |-> handed, data |-> exec.rows,
                    error |-> "none", message |-> ""]
    /\ stage' = "RETURNED"
    /\ UNCHANGED <<schemaVars, session_memory, rq, path, pack_out, raw, gen, validated,
                   answer, llm_calls, execVars, auxVars>>

\* process_question: the QueryResponse.
Return ==
    /\ stage = "RECORDED"
    /\ response' = [answer |-> answer, sql |-> handed, data |-> exec.rows,
                    error |-> "none", message |-> ""]
    /\ stage' = "RETURNED"
    /\ UNCHANGED <<schemaVars, session_memory, rq, path, pack_out, raw, gen, validated,
                   answer, llm_calls, execVars, auxVars>>

ResetSession == \E user \in Users : reset_session(user)

AskQuestion == \E user \in Users, question \in Questions : ReceiveQuestion(user, question)

\* ------------------------------------------------ requests running together
\* Two request handlers in the service process, each running
\* process_question for the request it was given.  Between reading the context
\* and appending the exchange a handler generates, executes and synthesizes,
\* none of which touches session_memory.
Threads == {"t1", "t2"}
ThreadQuestions == {"q1", "q2"}

ThreadIdle ==
    [stage |-> "IDLE", user |-> "u1", question |-> "q1", context |-> <<>>,
     answer |-> NoAnswer]

ThreadsOff == threads = [t \in Threads |-> ThreadIdle]

InFlight(t) == threads[t].stage \in {"RECEIVED", "SYNTHESIZED"}

\* process_question: reads the existing context.
ThreadReceive(t, user, question) ==
    /\ threads[t].stage \in {"IDLE", "RETURNED", "ERRORED"}
    /\ TotalTurns + Cardinality({o \in Threads : InFlight(o)}) < MaxTurns
    /\ threads' = [threads EXCEPT ![t] =
            [stage |-> "RECEIVED", user |-> user, question |-> question,
             context |-> get_context_text(user), answer |-> NoAnswer]]
    /\ UNCHANGED <<schemaVars, session_memory, reqVars, execVars, fnVars, reloadVars, clientVars>>

\* process_question: pack or legacy path up to the answer.
ThreadAnswer(t) ==
    /\ threads[t].stage = "RECEIVED"
    /\ \E ans \in {ModelSentence, NoDataMessage} :
          threads' = [threads EXCEPT ![t].stage = "SYNTHESIZED", ![t].answer = ans]
    /\ UNCHANGED <<schemaVars, session_memory, reqVars, execVars, fnVars, reloadVars, clientVars>>

\* An error in generation or execution: _error_response, nothing stored.
ThreadFail(t) ==
    /\ threads[t].stage = "RECEIVED"
    /\ threads' = [threads EXCEPT ![t].stage = "ERRORED"]
    /\ UNCHANGED <<schemaVars, session_memory, reqVars, execVars, fnVars, reloadVars, clientVars>>

\* process_question: appends the exchange.
ThreadRecord(t) ==
    /\ threads[t].stage = "SYNTHESIZED"
    /\ session_memory' = add_exchange(session_memory, threads[t].user,
                                      threads[t].question, threads[t].answer)
    /\ threads' = [threads EXCEPT ![t].stage = "RECORDED"]
    /\ UNCHANGED <<schemaVars, reqVars, execVars, fnVars, reloadVars, clientVars>>

ThreadReturn(t) ==
    /\ threads[t].stage = "RECORDED"
    /\ threads' = [threads EXCEPT ![t].stage = "RETURNED"]
    /\ UNCHANGED <<schemaVars, session_memory, reqVars, execVars, fnVars, reloadVars, clientVars>>

\* ------------------------------------------------------- the schema cache
\* The cached schema and load_meta_schema(force_reload=True).  A snapshot is
\* an object of the heap; the cache and the requests hold references to it.
TableNames == <<"parents", "students">>

\* The schema a source of revision rev yields.
Snapshot(tier, rev) ==
    [tier |-> tier, tables |-> [i \in 1..Len(TableNames) |-> [name |-> TableNames[i], rev |-> rev]]]

NoSnapshot == [tier |-> "none", tables |-> <<>>]

Objects == 1..(MaxReloads + 1)
NoRef == 0
Readers == {"r1", "r2"}

LoaderIdle == [pc |-> "idle", tried |-> <<>>, built |-> NoSnapshot]

\* The first source of the resolution order that yields a schema.
Resolve(src) ==
    IF src["meta"] = "ok" THEN "meta"
    ELSE IF src["ontology"] = "ok" THEN "ontology"
    ELSE IF src["introspection"] = "ok" THEN "introspection"
    ELSE "none"

NextObject == Cardinality({o \in Objects : heap[o] # NoSnapshot}) + 1

TotalEdits == revision["meta"] + revision["ontology"] + revision["introspection"]

\* A source file is updated on disk, between reloads.
EditSource(tier) ==
    /\ loading.pc = "idle"
    /\ TotalEdits < MaxEdits
    /\ \E st \in SourceStates : sources' = [sources EXCEPT ![tier] = st]
    /\ revision' = [revision EXCEPT ![tier] = @ + 1]
    /\ UNCHANGED <<PACK, svc, tried, schema_info, session_memory, reqVars, execVars,
                   fnVars, threads, clientVars, heap, schema_cache, loading, readers,
                   loads>>

StartReloadKeepsAttempts(l) == [l EXCEPT !.pc = "deriving"]

\* force_reload=True: the derivation starts over from the first source.
StartReload(l) == [pc |-> "deriving", tried |-> <<>>, built |-> NoSnapshot]

reload_begin ==
    /\ loading.pc = "idle"
    /\ NextObject \in Objects
    /\ loading' = StartReload(loading)
    /\ UNCHANGED <<schemaVars, session_memory, reqVars, execVars, fnVars, threads, clientVars,
                   revision, heap, schema_cache, readers, loads>>

\* One source of the resolution order is tried for the new snapshot.
ReloadTry(tier) ==
    /\ loading.pc = "deriving"
    /\ Len(loading.tried) < 3
    /\ NextSource(loading.tried) = tier
    /\ LET attempts == Append(loading.tried, tier)
       IN  IF SourceYields(tier)
           THEN loading' = [pc |-> "built", tried |-> attempts,
                            built |-> Snapshot(tier, revision[tier])]
           ELSE loading' = [pc |-> IF Len(attempts) = 3 THEN "idle" ELSE "deriving",
                            tried |-> attempts, built |-> NoSnapshot]
    /\ UNCHANGED <<schemaVars, session_memory, reqVars, execVars, fnVars, threads, clientVars,
                   revision, heap, schema_cache, readers, loads>>

SwapInPlace(h, ref, fresh, built) ==
    [heap |-> [h EXCEPT ![ref].tier = built.tier, ![ref].tables[1] = built.tables[1]],
     ref |-> ref]

\* The new snapshot is a new object and the cache reference is set to it.
SwapSnapshot(h, ref, fresh, built) ==
    [heap |-> [h EXCEPT ![fresh] = built], ref |-> fresh]

LastTwo(history, entry) ==
    IF Len(history) = 2 THEN <<history[2], entry>> ELSE Append(history, entry)

reload_swap ==
    /\ loading.pc = "built"
    /\ LET swapped == SwapSnapshot(heap, schema_cache, NextObject, loading.built)
       IN  /\ heap' = swapped.heap
           /\ schema_cache' = swapped.ref
           /\ loads' = LastTwo(loads, [sources |-> sources, revision |-> revision,
                                       snapshot |-> swapped.heap[swapped.ref]])
    /\ loading' = [loading EXCEPT !.pc = "idle"]
    /\ UNCHANGED <<schemaVars, session_memory, reqVars, execVars, fnVars, threads, clientVars,
                   revision, readers>>

\* A request is handed the cached snapshot.
getSchema(r) ==
    /\ readers[r] = NoRef
    /\ readers' = [readers EXCEPT ![r] = schema_cache]
    /\ UNCHANGED <<schemaVars, session_memory, reqVars, execVars, fnVars, threads, clientVars,
                   revision, heap, schema_cache, loading, loads>>

\* The request ends.
ReleaseSchema(r) ==
    /\ readers[r] # NoRef
    /\ readers' = [readers EXCEPT ![r] = NoRef]
    /\ UNCHANGED <<schemaVars, session_memory, reqVars, execVars, fnVars, threads, clientVars,
                   revision, heap, schema_cache, loading, loads>>

ReloadOff ==
    /\ revision = [t \in Tiers |-> 0]
    /\ heap = [o \in Objects |-> NoSnapshot]
    /\ schema_cache = NoRef
    /\ loading = LoaderIdle
    /\ readers = [r \in Readers |-> NoRef]
    /\ loads = <<>>

\* ------------------------------------------------------ the React API client
\* A URL is the sequence of its path segments after API_BASE_URL.
LOGIN == <<"auth", "login">>
ME == <<"auth", "me">>
ASK == <<"ask">>
HEALTH == <<"health">>
CHAT_RESET == <<"chat", "reset">>

Urls == {LOGIN, ME, ASK, HEALTH, CHAT_RESET}

\* localStorage.getItem(TOKEN_KEY): null or the stored token.
NoToken == "null"
StoredTokens == {"tok1", "tok2"}

NoHeader == "none"
Bearer(tok) == <<"Bearer", tok>>

\* url.includes(part)
Includes(url, part) ==
    \E i \in 0..(Len(url) - Len(part)) : SubSeq(url, i + 1, i + Len(part)) = part

AuthorizationWheneverToken(tok, url) ==
    IF tok # NoToken THEN Bearer(tok) ELSE <<NoHeader>>

\* fetchWithTimeout: the auth token is added when there is one, but not for
\* the login endpoint.
Authorization(tok, url) ==
    IF tok # NoToken /\ ~Includes(url, LOGIN) THEN Bearer(tok) ELSE <<NoHeader>>

\* Time passes in steps of a part of API_TIMEOUT.
TickMs == API_TIMEOUT \div TimeoutSteps

FetchIdle ==
    [pc |-> "idle", url |-> <<>>, token |-> NoToken, authorization |-> <<NoHeader>>,
     timer |-> "none", elapsed |-> 0, aborted |-> FALSE, error |-> "none"]

\* login stores the access token of the response.
setToken ==
    /\ \E tok \in StoredTokens : token' = tok
    /\ UNCHANGED <<serverVars, fetch, pageVars, sidebarVars, appVars>>

\* logout
clearToken ==
    /\ token # NoToken
    /\ token' = NoToken
    /\ UNCHANGED <<serverVars, fetch, pageVars, sidebarVars, appVars>>

\* fetchWithTimeout up to the await: the controller, the timer, the headers,
\* the request.
fetchWithTimeout(url) ==
    /\ fetch.pc = "idle"
    /\ fetch' = [pc |-> "pending", url |-> url, token |-> token,
                 authorization |-> Authorization(token, url),
                 timer |-> "armed", elapsed |-> 0, aborted |-> FALSE, error |-> "none"]
    /\ UNCHANGED <<serverVars, token, pageVars, sidebarVars, appVars>>

\* Time passes while the timer is set.
Tick ==
    /\ fetch.timer = "armed"
    /\ fetch.elapsed < API_TIMEOUT
    /\ fetch' = [fetch EXCEPT !.elapsed = Min(@ + TickMs, API_TIMEOUT)]
    /\ UNCHANGED <<serverVars, token, pageVars, sidebarVars, appVars>>

\* setTimeout callback: controller.abort()
TimerFires ==
    /\ fetch.timer = "armed"
    /\ fetch.elapsed = API_TIMEOUT
    /\ fetch' = [fetch EXCEPT !.timer = "fired", !.aborted = TRUE]
    /\ UNCHANGED <<serverVars, token, pageVars, sidebarVars, appVars>>

\* clearTimeout(timeoutId)
clearTimeout(timer) == IF timer = "armed" THEN "cleared" ELSE timer

\* The fetch promise resolves: the response is returned.
FetchResolves ==
    /\ fetch.pc = "pending"
    /\ ~fetch.aborted
    /\ fetch' = [fetch EXCEPT !.pc = "returned", !.timer = clearTimeout(@)]
    /\ UNCHANGED <<serverVars, token, pageVars, sidebarVars, appVars>>

\* The fetch promise rejects: AbortError after the abort, else a network
\* error that is thrown on.
FetchRejects ==
    /\ fetch.pc = "pending"
    /\ fetch' = [fetch EXCEPT !.pc = "thrown", !.timer = clearTimeout(@),
                              !.error = IF fetch.aborted THEN "APIError: Request timeout"
                                        ELSE "network error"]
    /\ UNCHANGED <<serverVars, token, pageVars, sidebarVars, appVars>>

\* The caller has the outcome; the next call can start.
FetchSettled ==
    /\ fetch.pc \in {"returned", "thrown"}
    /\ fetch' = FetchIdle
    /\ UNCHANGED <<serverVars, token, pageVars, sidebarVars, appVars>>

FetchOff == token = NoToken /\ fetch = FetchIdle

\* --------------------------------------------- visualization in the clients
\* A cell of a data row: a number, or a string with its text.
Cells ==
    { [kind |-> "number", text |-> "7", num |-> 7],
      [kind |-> "string", text |-> "1,000", num |-> 0],
      [kind |-> "string", text |-> "north", num |-> 0] }

Null == -1

\* Number(s) of a string with commas and spaces removed, when finite.
ParseNumber(text) ==
    CASE text = "1,000" -> 1000
      [] text = "7" -> 7
      [] OTHER -> Null

\* tryNumber of inferVisualizationFromData
tryNumber(v) == IF v.kind = "number" THEN v.num ELSE ParseNumber(v.text)

NoViz ==
    [chart_type |-> "none", title |-> "", labels |-> <<>>, values |-> <<>>, xs |-> <<>>]

\* response.visualization as the server sends it.
VizSamples ==
    { [chart_type |-> ct, title |-> "t", labels |-> <<"a", "b">>, values |-> <<1, 2>>,
       xs |-> <<>>] : ct \in {"pie", "line", "bar", "metric"} }

\* response.data with its columns: no row, one column, two columns.
DataSamples ==
    {[columns |-> <<>>, rows |-> <<>>]}
    \cup {[columns |-> <<"total">>, rows |-> <<<<c>>>>] : c \in Cells}
    \cup {[columns |-> <<"total">>, rows |-> <<<<c>>, <<d>>>>] : c \in Cells, d \in Cells}
    \cup {[columns |-> <<"region", "total">>, rows |-> <<<<a, b>>, <<c, d>>>>] :
              a \in Cells, b \in Cells, c \in Cells, d \in Cells}

BotResponses == [visualization : VizSamples \cup {NoViz}, data : DataSamples]

NoBotResponse == [visualization |-> NoViz, data |-> [columns |-> <<>>, rows |-> <<>>]]

Column(rows, j) == [i \in 1..Len(rows) |-> rows[i][j]]
AllNum(cells) == \A i \in 1..Len(cells) : tryNumber(cells[i]) # Null
Nums(cells) == [i \in 1..Len(cells) |-> tryNumber(cells[i])]
Texts(cells) == [i \in 1..Len(cells) |-> cells[i].text]

\* BiChatbot.inferVisualizationFromData
inferVisualizationFromData(data) ==
    LET rows == data.rows
        cols == data.columns
    IN  IF Len(rows) = 0 THEN NoViz
        ELSE IF Len(cols) = 1
        THEN LET n == tryNumber(rows[1][1])
             IN  IF n # Null
                 THEN [chart_type |-> "metric", title |-> cols[1], labels |-> <<cols[1]>>,
                       values |-> <<n>>, xs |-> <<>>]
                 ELSE NoViz
        ELSE LET a == Column(rows, 1)
                 b == Column(rows, 2)
             IN  IF ~AllNum(a) /\ AllNum(b)
                 THEN [chart_type |-> "bar", title |-> cols[2], labels |-> Texts(a),
                       values |-> Nums(b), xs |-> <<>>]
                 ELSE IF ~AllNum(b) /\ AllNum(a)
                 THEN [chart_type |-> "bar", title |-> cols[1], labels |-> Texts(b),
                       values |-> Nums(a), xs |-> <<>>]
                 ELSE IF AllNum(a) /\ AllNum(b)
                 THEN [chart_type |-> "scatter", title |-> cols[1],
                       labels |-> [i \in 1..Len(rows) |-> ToString(i - 1)],
                       values |-> Nums(b), xs |-> Nums(a)]
                 ELSE NoViz

VizUsedInferredFirst(data) ==
    IF Len(data.data.rows) > 0 /\ inferVisualizationFromData(data.data) # NoViz
    THEN inferVisualizationFromData(data.data)
    ELSE data.visualization

\* addBotResponse: the visualization of the response, else one inferred from
\* its rows, else none.
VizUsed(data) ==
    IF data.visualization # NoViz THEN data.visualization
    ELSE IF Len(data.data.rows) > 0 THEN inferVisualizationFromData(data.data)
    ELSE NoViz

\* BiChatbot.addBotResponse: the message is appended and the sidebar chart
\* updated when there is a visualization to use.
addBotResponse(data) ==
    /\ page = "vanilla"
    /\ bot_messages < MaxMessages
    /\ bot_messages' = bot_messages + 1
    /\ bot_data' = data
    /\ sidebarChart' = IF VizUsed(data) # NoViz THEN VizUsed(data) ELSE sidebarChart
    /\ UNCHANGED <<serverVars, fetchVars, pageVars, appVars>>

\* The React App.  A message is [id, type, content, visualization]; the
\* content of a user message is its question, that of an AI message the
\* answer or the error of the request made for a question.  A question
\* text is a number; asks is the bag of the questions in flight.
NoChart == [type |-> "none", data |-> <<>>]
NoId == 0

AskResponses == [visualization : VizSamples \cup {NoViz}, failed : {FALSE}]
AskFailure == [visualization |-> NoViz, failed |-> TRUE]

\* handleSendMessage: aiMessage.visualization from response.visualization.
BuildVisualization(viz) ==
    [type |-> IF viz.chart_type = "pie" THEN "pie"
              ELSE IF viz.chart_type = "line" THEN "line" ELSE "bar",
     data |-> [i \in 1..Len(viz.labels) |-> [name |-> viz.labels[i], value |-> viz.values[i]]]]

WithViz(msgs) == {i \in 1..Len(msgs) : msgs[i].type = "ai" /\ msgs[i].visualization # NoChart}

\* The effect without its test of userLockedChart.
AutoUpdateActiveUnlocked(msgs, expanded, locked, active) ==
    IF expanded /\ WithViz(msgs) # {}
    THEN msgs[CHOOSE i \in WithViz(msgs) : \A j \in WithViz(msgs) : j <= i].id
    ELSE active

\* useEffect on [messages, isAnalyticsExpanded, userLockedChart]: the last AI
\* message with a visualization becomes the active one.
AutoUpdateActive(msgs, expanded, locked, active) ==
    IF expanded /\ ~locked /\ WithViz(msgs) # {}
    THEN msgs[CHOOSE i \in WithViz(msgs) : \A j \in WithViz(msgs) : j <= i].id
    ELSE active

Question(n) == [kind |-> "question", of |-> n]
Answer(n) == [kind |-> "answer", of |-> n]
ErrorText(n) == [kind |-> "error", of |-> n]

\* handleSendMessage up to the await of askQuestion.
handleSendMessage(content) ==
    /\ page = "react"
    /\ BagCardinality(asks) + answered < MaxMessages
    /\ messages' = Append(messages, [id |-> clock, type |-> "user",
                                     content |-> Question(content),
                                     visualization |-> NoChart])
    /\ asks' = asks (+) SetToBag({content})
    /\ isThinking' = TRUE
    /\ activeMessageId' =
          AutoUpdateActive(messages', isAnalyticsExpanded, userLockedChart, activeMessageId)
    /\ UNCHANGED <<serverVars, fetchVars, pageVars, sidebarVars, isAnalyticsExpanded,
                   userLockedChart, clock, answered, ask_response>>

\* handleSendMessage after askQuestion resolved with the response r.
AskResolvedWith(r) ==
    /\ \E n \in BagToSet(asks) :
          /\ asks' = asks (-) SetToBag({n})
          /\ ask_response' = r
          /\ messages' = Append(messages,
                [id |-> clock + 1, type |-> "ai", content |-> Answer(n),
                 visualization |-> IF r.visualization # NoViz
                                   THEN BuildVisualization(r.visualization)
                                   ELSE NoChart])
    /\ isThinking' = FALSE
    /\ answered' = answered + 1
    /\ activeMessageId' =
          AutoUpdateActive(messages', isAnalyticsExpanded, userLockedChart, activeMessageId)
    /\ UNCHANGED <<serverVars, fetchVars, pageVars, sidebarVars, isAnalyticsExpanded,
                   userLockedChart, clock>>

AskResolved == \E r \in AskResponses : AskResolvedWith(r)

\* handleSendMessage after askQuestion threw: the error message.
AskRejected ==
    /\ \E n \in BagToSet(asks) :
          /\ asks' = asks (-) SetToBag({n})
          /\ messages' = Append(messages, [id |-> clock + 1, type |-> "ai",
                                            content |-> ErrorText(n),
                                            visualization |-> NoChart])
    /\ ask_response' = AskFailure
    /\ isThinking' = FALSE
    /\ answered' = answered + 1
    /\ activeMessageId' =
          AutoUpdateActive(messages', isAnalyticsExpanded, userLockedChart, activeMessageId)
    /\ UNCHANGED <<serverVars, fetchVars, pageVars, sidebarVars, isAnalyticsExpanded,
                   userLockedChart, clock>>

\* A bubble with a visualization is clicked.
handleBubbleClick(i) ==
    /\ messages[i].visualization # NoChart
    /\ activeMessageId' = messages[i].id
    /\ isAnalyticsExpanded' = FALSE
    /\ UNCHANGED <<serverVars, fetchVars, pageVars, sidebarVars, messages, isThinking,
                   userLockedChart, clock, asks, answered, ask_response>>

handleExpandChart(i) ==
    /\ messages[i].visualization # NoChart
    /\ activeMessageId' = messages[i].id
    /\ isAnalyticsExpanded' = TRUE
    /\ userLockedChart' = TRUE
    /\ UNCHANGED <<serverVars, fetchVars, pageVars, sidebarVars, messages, isThinking,
                   clock, asks, answered, ask_response>>

handleCloseAnalytics ==
    /\ page = "react"
    /\ isAnalyticsExpanded
    /\ isAnalyticsExpanded' = FALSE
    /\ userLockedChart' = FALSE
    /\ UNCHANGED <<serverVars, fetchVars, pageVars, sidebarVars, messages, isThinking,
                   activeMessageId, clock, asks, answered, ask_response>>

\* Date.now() moves on.
AdvanceClock ==
    /\ page = "react"
    /\ clock < MaxClock
    /\ clock' = clock + 1
    /\ UNCHANGED <<serverVars, fetchVars, pageVars, sidebarVars, messages, isThinking,
                   activeMessageId, isAnalyticsExpanded, userLockedChart, asks, answered,
                   ask_response>>

\* ChatInput.handleSubmit: the typed question is sent unless the input is
\* disabled, which it is while isThinking.
\* The text of the next question: every question sent differs from the
\* ones sent before.
NextQuestion == BagCardinality(asks) + answered + 1

ChatInputSubmit ==
    /\ ~showLoginScreen
    /\ ~isThinking
    /\ handleSendMessage(NextQuestion)

\* A suggested question of the welcome screen, shown while there is no
\* message.
handleQuestionClick ==
    /\ ~showLoginScreen
    /\ messages = <<>>
    /\ handleSendMessage(NextQuestion)

UserMessages(msgs) == {i \in 1..Len(msgs) : msgs[i].type = "user"}

\* handleSaveQuery, from the actions of an answer or from the open panel:
\* the last question of the user is saved.
handleSaveQuery ==
    /\ page = "react"
    /\ ~showLoginScreen
    /\ \/ \E i \in 1..Len(messages) : messages[i].content.kind = "answer"
       \/ isAnalyticsExpanded /\ activeMessageId # NoId
    /\ UserMessages(messages) # {}
    /\ savedQueries = <<>>
    /\ LET last == CHOOSE i \in UserMessages(messages) :
                       \A j \in UserMessages(messages) : j <= i
       IN  savedQueries' = Append(savedQueries, messages[last].content.of)
    /\ UNCHANGED <<serverVars, fetchVars, page, siteVars, vanillaVars, showLoginScreen, appUser,
                   sidebarVars, appVars>>

\* A saved query is run from the side sheet.
handleRunSavedQuery ==
    /\ ~showLoginScreen
    /\ \E k \in 1..Len(savedQueries) : handleSendMessage(savedQueries[k])

\* The new-chat button, or Ctrl+Shift+O.
handleNewChat ==
    /\ page = "react"
    /\ messages' = <<>>
    /\ activeMessageId' = NoId
    /\ isAnalyticsExpanded' = FALSE
    /\ UNCHANGED <<serverVars, fetchVars, pageVars, sidebarVars, isThinking,
                   userLockedChart, clock, asks, answered, ask_response>>

\* handleLogin after login() resolved, and handleSkipLogin.
handleLogin ==
    /\ page = "react"
    /\ showLoginScreen
    /\ token' = CHOOSE tok \in StoredTokens : TRUE
    /\ appUser' = "u1"
    /\ showLoginScreen' = FALSE
    /\ UNCHANGED <<serverVars, fetch, page, siteVars, vanillaVars, savedQueries, sidebarVars, appVars>>

handleSkipLogin ==
    /\ page = "react"
    /\ showLoginScreen
    /\ showLoginScreen' = FALSE
    /\ UNCHANGED <<serverVars, fetchVars, page, siteVars, vanillaVars, savedQueries, appUser,
                   sidebarVars, appVars>>

\* handleLogout: the token cleared, the user, the messages and the saved
\* queries dropped, the login screen shown.
handleLogout ==
    /\ page = "react"
    /\ ~showLoginScreen
    /\ token' = NoToken
    /\ appUser' = "none"
    /\ messages' = <<>>
    /\ savedQueries' = <<>>
    /\ showLoginScreen' = TRUE
    /\ activeMessageId' =
          AutoUpdateActive(messages', isAnalyticsExpanded, userLockedChart, activeMessageId)
    /\ UNCHANGED <<serverVars, fetch, page, siteVars, vanillaVars, sidebarVars, isThinking,
                   isAnalyticsExpanded, userLockedChart, clock, asks, answered,
                   ask_response>>

\* ------------------------------------------ the chat of the vanilla front end
\* BiChatbot: the input field, isLoading, the messages of the chat, the
\* requests in flight and the calls made so far.
Inputs == {"", " ", "q"}

\* String.prototype.trim
Trim(text) == IF text = " " THEN "" ELSE text

\* What fetch and response.json() give: a body, a null body, a body that is
\* not JSON, a status that is not ok, or no answer at all.
AskOutcomes == {"ok", "ok_null", "bad_json", "http_error", "network_error"}

VanillaStart ==
    /\ messageInput = ""
    /\ isLoading = FALSE
    /\ chatMessages = <<>>
    /\ inflight = [ask |-> 0, voice |-> 0]
    /\ send_calls = [text |-> 0, voice |-> 0]

\* The user edits the input field.
TypeInput(text) ==
    /\ page = "chat"
    /\ messageInput # text
    /\ messageInput' = text
    /\ UNCHANGED <<serverVars, fetchVars, page, siteVars, sessionVars, isLoading, chatMessages,
                   inflight, send_calls, sidebarVars, appVars>>

ReturnsEarlyOnEmptyOnly(message, busy) == message = ""

\* sendMessage: if (!message || this.isLoading) return
ReturnsEarly(message, busy) == message = "" \/ busy

\* BiChatbot.sendMessage up to the await of fetch: the early return, else
\* addMessage(message, 'user'), the input cleared, setLoading(true) and the
\* request sent.
sendMessage ==
    /\ page = "chat"
    /\ send_calls.text < MaxSends
    /\ send_calls' = [send_calls EXCEPT !.text = @ + 1]
    /\ LET message == Trim(messageInput)
       IN  IF ReturnsEarly(message, isLoading)
           THEN UNCHANGED <<messageInput, isLoading, chatMessages, inflight>>
           ELSE /\ chatMessages' = Append(chatMessages, [type |-> "user", text |-> message])
                /\ messageInput' = ""
                /\ isLoading' = TRUE
                /\ inflight' = [inflight EXCEPT !.ask = @ + 1]
    /\ UNCHANGED <<serverVars, fetchVars, page, siteVars, sessionVars, sidebarVars, appVars>>

\* BiChatbot.sendMessage after the await: addBotResponse(data) for a body,
\* addErrorMessage in the catch, setLoading(false) in the finally.
AskSettles(outcome) ==
    /\ page = "chat"
    /\ inflight.ask > 0
    /\ inflight' = [inflight EXCEPT !.ask = @ - 1]
    /\ chatMessages' = Append(chatMessages,
            IF outcome = "ok" THEN [type |-> "bot", text |-> "answer"]
            ELSE [type |-> "error", text |-> outcome])
    /\ isLoading' = FALSE
    /\ UNCHANGED <<serverVars, fetchVars, page, siteVars, sessionVars, messageInput, send_calls,
                   sidebarVars, appVars>>

\* BiChatbot.sendVoiceQuery up to the await of fetch: setLoading(true).
sendVoiceQuery ==
    /\ page = "chat"
    /\ send_calls.voice < 1
    /\ send_calls' = [send_calls EXCEPT !.voice = @ + 1]
    /\ inflight' = [inflight EXCEPT !.voice = @ + 1]
    /\ isLoading' = TRUE
    /\ UNCHANGED <<serverVars, fetchVars, page, siteVars, sessionVars, messageInput, chatMessages,
                   sidebarVars, appVars>>

\* BiChatbot.sendVoiceQuery after the await: the question and the answer are
\* added, or a toast is shown; setLoading(false) in the finally.
VoiceSettles(ok) ==
    /\ page = "chat"
    /\ inflight.voice > 0
    /\ inflight' = [inflight EXCEPT !.voice = @ - 1]
    /\ chatMessages' = IF ok
                       THEN chatMessages \o <<[type |-> "user", text |-> "voice"],
                                              [type |-> "bot", text |-> "answer"]>>
                       ELSE chatMessages
    /\ isLoading' = FALSE
    /\ UNCHANGED <<serverVars, fetchVars, page, siteVars, sessionVars, messageInput, send_calls,
                   sidebarVars, appVars>>

\* The sidebar starts with the sample chart.
SampleChart ==
    [chart_type |-> "sample", title |-> "", labels |-> <<>>, values |-> <<>>, xs |-> <<>>]

SidebarStart ==
    /\ sidebarChart = SampleChart
    /\ bot_messages = 0
    /\ bot_data = NoBotResponse

AppStart ==
    /\ messages = <<>>
    /\ isThinking = FALSE
    /\ activeMessageId = NoId
    /\ isAnalyticsExpanded = FALSE
    /\ userLockedChart = FALSE
    /\ clock = 1
    /\ asks = EmptyBag
    /\ answered = 0
    /\ ask_response = AskFailure

SessionStart == savedQueries = <<>> /\ showLoginScreen = TRUE /\ appUser = "none"

\* Chat and ChatInput as useState leaves them.
ChatPageStart ==
    /\ Chat = [messages |-> <<>>, sql |-> 0, data |-> 0, loading |-> FALSE, error |-> ""]
    /\ value = ""
    /\ requests = <<>>

NoItem == "none"

\* login.html as it is when the script has been read and DOMContentLoaded has
\* not fired yet.
LoginScriptStart ==
    [loaded |-> FALSE, handleLogin |-> "idle", verifyTokenAndRedirect |-> "idle",
     disabled |-> FALSE, error |-> "none", timer |-> FALSE]

LoginStart ==
    /\ localStorage = [authToken |-> NoItem, tokenType |-> NoItem, userInfo |-> NoItem]
    /\ location = "login.html"
    /\ loginScript = LoginScriptStart
    /\ authToken = NoItem

\* useAuth mounted with nothing stored.
UseAuthStart ==
    /\ useAuth = [token |-> "", user |-> NoItem, loading |-> FALSE, error |-> ""]
    /\ access_token = ""
    /\ me_calls = <<>>
    /\ sign_ins = [pending |-> 0, made |-> 0]

SiteStart == ChatPageStart /\ LoginStart /\ UseAuthStart

PagesOff == VanillaStart /\ SessionStart /\ SiteStart

ClientOff == FetchOff /\ page = "none" /\ SidebarStart /\ AppStart /\ PagesOff

SideOff == ThreadsOff /\ ReloadOff /\ ClientOff

\* --------------------------------------------------------------- specification
\* One configuration of the schema sources for each way the discovery ends.
SourceSamples ==
    { [meta |-> "ok", ontology |-> "ok", introspection |-> "ok"],
      [meta |-> "error", ontology |-> "ok", introspection |-> "ok"],
      [meta |-> "empty", ontology |-> "error", introspection |-> "ok"],
      [meta |-> "error", ontology |-> "empty", introspection |-> "error"] }

Init ==
    /\ sources \in SourceSamples
    /\ PACK \in BOOLEAN
    /\ svc = "init"
    /\ tried = <<>>
    /\ schema_info = "none"
    /\ session_memory = [u \in Users |-> <<>>]
    /\ RequestIdle
    /\ FnOff
    /\ SideOff

Next ==
    \/ _load_schema_from_meta_yaml
    \/ _load_schema_from_yaml
    \/ _fallback_schema_analysis
    \/ AskQuestion
    \/ PackAttempt
    \/ GenerateSql
    \/ ExecuteBegin
    \/ ExecuteFinish
    \/ Synthesize
    \/ Record
    \/ Return
    \/ ResetSession

Spec == Init /\ [][Next]_vars

\* ------------------------------- startup under every state of the sources
InitSchema ==
    /\ sources \in [Tiers -> SourceStates]
    /\ PACK \in BOOLEAN
    /\ svc = "init"
    /\ tried = <<>>
    /\ schema_info = "none"
    /\ session_memory = [u \in Users |-> <<>>]
    /\ RequestIdle
    /\ FnOff
    /\ SideOff

NextSchema ==
    \/ _load_schema_from_meta_yaml
    \/ _load_schema_from_yaml
    \/ _fallback_schema_analysis
    \/ AskQuestion

SpecSchema == InitSchema /\ [][NextSchema]_vars

\* ------------------------------------------- pure functions, applied
InitSql ==
    /\ sources = [t \in Tiers |-> "ok"]
    /\ PACK = FALSE
    /\ svc = "ready"
    /\ tried = <<"meta">>
    /\ schema_info = "meta"
    /\ session_memory = [u \in Users |-> <<>>]
    /\ RequestIdle
    /\ fn_pc = "input"
    /\ fn_in \in SqlTexts
    /\ fn_out = "none"
    /\ SideOff

ApplyValidate ==
    /\ fn_pc = "input"
    /\ fn_out' = validate_sql_against_semantic_rules(fn_in)
    /\ fn_pc' = "validated"
    /\ UNCHANGED <<fn_in, schemaVars, session_memory, reqVars, execVars, sideVars>>

NextSql == ApplyValidate

SpecSql == InitSql /\ [][NextSql]_vars

\* The service at rest: started from the META schema, no request, no transcript.
ServiceAtRest ==
    /\ sources = [t \in Tiers |-> "ok"]
    /\ PACK = FALSE
    /\ svc = "ready"
    /\ tried = <<"meta">>
    /\ schema_info = "meta"
    /\ session_memory = [u \in Users |-> <<>>]
    /\ RequestIdle

\* generate_response applied to every result payload and every pair of model
\* outcomes.
SynthResults ==
    { [SelectPayload(n) EXCEPT !.columns = c] : n \in RowCounts, c \in 1..MaxColumns }

SynthInputs == [results : SynthResults, o1 : LlmOutcomes, o2 : LlmOutcomes]

InitSynth ==
    /\ ServiceAtRest
    /\ fn_pc = "input"
    /\ fn_in \in SynthInputs
    /\ fn_out = [answer |-> NoAnswer, calls |-> 0]
    /\ SideOff

ApplyGenerateResponse ==
    /\ fn_pc = "input"
    /\ fn_out' = generate_response(fn_in.results, fn_in.o1, fn_in.o2)
    /\ fn_pc' = "answered"
    /\ UNCHANGED <<fn_in, schemaVars, session_memory, reqVars, execVars, sideVars>>

NextSynth == ApplyGenerateResponse

SpecSynth == InitSynth /\ [][NextSynth]_vars

\* generate_sql applied to every raw model response: a JSON envelope or free
\* text, of every token text.
RawResponses == [kind : {"json", "text"}, body : SqlTexts]

InitParse ==
    /\ ServiceAtRest
    /\ fn_pc = "input"
    /\ fn_in \in RawResponses
    /\ fn_out = NoGen
    /\ SideOff

ApplyGenerateSql ==
    /\ fn_pc = "input"
    /\ fn_out' = generate_sql(fn_in)
    /\ fn_pc' = "generated"
    /\ UNCHANGED <<fn_in, schemaVars, session_memory, reqVars, execVars, sideVars>>

NextParse == ApplyGenerateSql

SpecParse == InitParse /\ [][NextParse]_vars

\* The normalization applied to every token text, then applied a second time
\* (fn_in keeps the statement the second application started from), or
\* followed by the guards of execute_query.
InitNormalize ==
    /\ ServiceAtRest
    /\ fn_pc = "input"
    /\ fn_in \in SqlTexts
    /\ fn_out = NoSql
    /\ SideOff

ApplyNormalize ==
    /\ fn_pc = "input"
    /\ fn_out' = NormalizeSql(fn_in)
    /\ fn_pc' = "normalized"
    /\ UNCHANGED <<fn_in, schemaVars, session_memory, reqVars, execVars, sideVars>>

ApplyNormalizeAgain ==
    /\ fn_pc = "normalized"
    /\ fn_in' = fn_out
    /\ fn_out' = NormalizeSql(fn_out)
    /\ fn_pc' = "renormalized"
    /\ UNCHANGED <<schemaVars, session_memory, reqVars, execVars, sideVars>>

ApplyLastResortGuards ==
    /\ fn_pc = "normalized"
    /\ fn_in' = fn_out
    /\ fn_out' = LastResortGuards(fn_out)
    /\ fn_pc' = "guarded"
    /\ UNCHANGED <<schemaVars, session_memory, reqVars, execVars, sideVars>>

NextNormalize == ApplyNormalize \/ ApplyNormalizeAgain \/ ApplyLastResortGuards

SpecNormalize == InitNormalize /\ [][NextNormalize]_vars

\* Two handlers of the started service, serving requests of any users.
InitThreads ==
    /\ ServiceAtRest
    /\ FnOff
    /\ ThreadsOff
    /\ ReloadOff
    /\ ClientOff

NextThreads ==
    \E t \in Threads :
        \/ \E user \in Users, question \in ThreadQuestions : ThreadReceive(t, user, question)
        \/ ThreadAnswer(t)
        \/ ThreadFail(t)
        \/ ThreadRecord(t)
        \/ ThreadReturn(t)

SpecThreads == InitThreads /\ [][NextThreads]_vars

\* The started service with the snapshot of its first load in the cache,
\* source files edited, forced reloads, and requests taking the snapshot.
InitReload ==
    /\ sources \in {src \in SourceSamples : Resolve(src) # "none"}
    /\ PACK = FALSE
    /\ svc = "ready"
    /\ schema_info = Resolve(sources)
    /\ tried = SubSeq(SchemaOrder, 1, CHOOSE i \in 1..3 : SchemaOrder[i] = schema_info)
    /\ session_memory = [u \in Users |-> <<>>]
    /\ RequestIdle
    /\ FnOff
    /\ ThreadsOff
    /\ revision = [t \in Tiers |-> 0]
    /\ heap = [o \in Objects |->
                  IF o = 1 THEN Snapshot(schema_info, 0) ELSE NoSnapshot]
    /\ schema_cache = 1
    /\ loading = LoaderIdle
    /\ readers = [r \in Readers |-> NoRef]
    /\ loads = <<>>
    /\ ClientOff

NextReload ==
    \/ \E tier \in Tiers : EditSource(tier)
    \/ reload_begin
    \/ \E tier \in Tiers : ReloadTry(tier)
    \/ reload_swap
    \/ \E r \in Readers : getSchema(r)
    \/ \E r \in Readers : ReleaseSchema(r)

SpecReload == InitReload /\ [][NextReload]_vars

\* The API client of the React front end: token storage and one call of
\* fetchWithTimeout at a time.
InitFetch ==
    /\ ServiceAtRest
    /\ FnOff
    /\ ThreadsOff
    /\ ReloadOff
    /\ FetchOff
    /\ page = "none"
    /\ SidebarStart
    /\ AppStart
    /\ PagesOff

NextFetch ==
    \/ setToken
    \/ clearToken
    \/ \E url \in Urls : fetchWithTimeout(url)
    \/ Tick
    \/ TimerFires
    \/ FetchResolves
    \/ FetchRejects
    \/ FetchSettled

SpecFetch == InitFetch /\ [][NextFetch]_vars

\* One of the two front ends is loaded and shows the answers it receives.
InitViz ==
    /\ ServiceAtRest
    /\ FnOff
    /\ ThreadsOff
    /\ ReloadOff
    /\ FetchOff
    /\ page \in {"vanilla", "react"}
    /\ SidebarStart
    /\ AppStart
    /\ PagesOff

NextViz ==
    \/ \E data \in BotResponses : addBotResponse(data)
    \/ \E content \in 1..1 : handleSendMessage(content)
    \/ AskResolved
    \/ AskRejected
    \/ \E i \in 1..Len(messages) : handleBubbleClick(i)
    \/ \E i \in 1..Len(messages) : handleExpandChart(i)
    \/ handleCloseAnalytics
    \/ AdvanceClock

SpecViz == InitViz /\ [][NextViz]_vars

\* An answer with a visualization and one without.
AppResponses ==
    {r \in AskResponses : r.visualization = NoViz \/ r.visualization.chart_type = "pie"}

\* The React App with its login screen: typed sends, suggested questions,
\* saved queries, new chats and logouts while requests are in flight.
InitApp ==
    /\ ServiceAtRest
    /\ FnOff
    /\ ThreadsOff
    /\ ReloadOff
    /\ FetchOff
    /\ page = "react"
    /\ SidebarStart
    /\ AppStart
    /\ PagesOff

NextApp ==
    \/ handleLogin
    \/ handleSkipLogin
    \/ ChatInputSubmit
    \/ handleQuestionClick
    \/ handleSaveQuery
    \/ handleRunSavedQuery
    \/ \E r \in AppResponses : AskResolvedWith(r)
    \/ AskRejected
    \/ handleNewChat
    \/ handleLogout
    \/ \E i \in 1..Len(messages) : ~showLoginScreen /\ handleBubbleClick(i)
    \/ \E i \in 1..Len(messages) : ~showLoginScreen /\ handleExpandChart(i)
    \/ ~showLoginScreen /\ handleCloseAnalytics
    \/ AdvanceClock

SpecApp == InitApp /\ [][NextApp]_vars

\* The analytics panel of the React App: answers arrive while the user
\* clicks bubbles, expands charts, closes the panel and starts new chats.
NextPanel ==
    \/ \E content \in 1..1 : handleSendMessage(content)
    \/ \E r \in AppResponses : AskResolvedWith(r)
    \/ AskRejected
    \/ \E i \in 1..Len(messages) : handleBubbleClick(i)
    \/ \E i \in 1..Len(messages) : handleExpandChart(i)
    \/ handleCloseAnalytics
    \/ handleNewChat
    \/ AdvanceClock

SpecPanel == InitApp /\ [][NextPanel]_vars

\* The chat page of the vanilla front end: the user types, sends and records
\* a voice query while requests are in flight.
InitSend ==
    /\ ServiceAtRest
    /\ FnOff
    /\ ThreadsOff
    /\ ReloadOff
    /\ FetchOff
    /\ page = "chat"
    /\ SidebarStart
    /\ AppStart
    /\ PagesOff

NextSend ==
    \/ \E text \in Inputs : TypeInput(text)
    \/ sendMessage
    \/ \E outcome \in AskOutcomes : AskSettles(outcome)
    \/ sendVoiceQuery
    \/ \E ok \in BOOLEAN : VoiceSettles(ok)

SpecSend == InitSend /\ [][NextSend]_vars

\* The started service handling requests, with its progress assumption: a
\* handler that can take its next step takes it, because the calls to the
\* model and to the database return or time out.
InitLive ==
    /\ sources = [t \in Tiers |-> "ok"]
    /\ PACK \in BOOLEAN
    /\ svc = "ready"
    /\ tried = <<"meta">>
    /\ schema_info = "meta"
    /\ session_memory = [u \in Users |-> <<>>]
    /\ RequestIdle
    /\ FnOff
    /\ SideOff

RequestStepDatabaseHangs ==
    \/ PackAttempt
    \/ GenerateSql
    \/ ExecuteBegin
    \/ Synthesize
    \/ Record
    \/ Return

\* process_question: the steps of the request being handled.
RequestStep ==
    \/ PackAttempt
    \/ GenerateSql
    \/ ExecuteBegin
    \/ ExecuteFinish
    \/ Synthesize
    \/ Record
    \/ Return

NextLive ==
    \/ AskQuestion
    \/ RequestStep
    \/ ResetSession

SpecLive == InitLive /\ [][NextLive]_vars /\ WF_vars(RequestStep)

\* ==================================================================== claims
AfterExecution == {"EXECUTED", "SYNTHESIZED", "RECORDED", "RETURNED"}
Finished == {"RETURNED", "ERRORED"}

\* C1: the statement handed to the executor is the statement validate
\* accepted: whenever an execution has started, a statement was validated
\* for the request and the statement handed over is that very statement.
C1_ExecutedIsValidated ==
    tx # "none" => (validated # NoSql /\ handed = validated)

\* ---- C2
\* Exactly one SELECT or WITH statement: the text starts with the keyword and
\* no separator is followed by further text.
ExactlyOneSelect(sql) ==
    /\ StartsWithSelect(sql)
    /\ \A i \in 1..Len(sql) : sql[i] = ";" => i = Len(sql)

SeparatorThenDdl(sql) ==
    \E i \in 1..Len(sql) : \E j \in (i + 1)..Len(sql) : sql[i] = ";" /\ sql[j] = "DROP"

C3_FailuresBecomeResponses ==
    /\ (gen.error # "none" \/ exec.error # "none") => stage = "ERRORED"
    /\ stage = "ERRORED" =>
          /\ response.error \in ErrorKinds \ {"SchemaUnavailable", "SynthesisDegenerate"}
          /\ response.message # ""
          /\ gen.error # "none" => response.error = gen.error
          /\ exec.error # "none" => response.error = exec.error
    /\ stage \in Finished => response # NoResponse
    /\ response.error # "SynthesisDegenerate"
    /\ stage \in {"SYNTHESIZED", "RECORDED", "RETURNED"} => answer # NoAnswer
    /\ stage = "RETURNED" => response.error = "none" /\ response.answer = answer

C3_Witness ==
    /\ stage = "ERRORED"
    /\ exec.error = "ExecutionFailed"
    /\ response.error = "ExecutionFailed"
    /\ response.message # ""

C5_FailedExecutionRolledBack ==
    (stage # "EXECUTING" /\ tx # "none" /\ ~exec.success) =>
        /\ tx = "rolled_back"
        /\ exec.error = "ExecutionFailed"
        /\ stage = "ERRORED"
        /\ response.error = "ExecutionFailed"

C5_Witness ==
    /\ stage = "ERRORED"
    /\ ~exec.success
    /\ exec.error = "ExecutionFailed"
    /\ tx = "rolled_back"
    /\ executed # NoSql

\* C6: a read statement returns at most PREVIEW_ROWS rows and row_count is
\* the number of rows returned: PREVIEW_ROWS for a larger result set, the
\* size of the result set otherwise.
C6_PreviewCap ==
    (stage \in AfterExecution /\ exec.success) =>
        /\ exec.row_count = Len(exec.rows)
        /\ exec.row_count <= PREVIEW_ROWS
        /\ db_rows > PREVIEW_ROWS => exec.row_count = PREVIEW_ROWS
        /\ db_rows <= PREVIEW_ROWS => exec.row_count = db_rows

C6_Witness ==
    /\ stage \in AfterExecution
    /\ exec.success
    /\ db_rows > PREVIEW_ROWS
    /\ Len(exec.rows) = PREVIEW_ROWS

\* ---- C7
Priority(tier) == CHOOSE i \in 1..3 : SchemaOrder[i] = tier

\* C7: the sources are attempted in the order meta, ontology, introspection;
\* a source is attempted only after every earlier one failed; the snapshot
\* comes from the first source in that order that holds a schema.
C7_ResolutionOrder ==
    /\ \A i \in 1..Len(tried) : tried[i] = SchemaOrder[i]
    /\ \A i \in 1..Len(tried) : \A j \in 1..(i - 1) : sources[SchemaOrder[j]] # "ok"
    /\ schema_info # "none" =>
          /\ sources[schema_info] = "ok"
          /\ \A t \in Tiers : Priority(t) < Priority(schema_info) => sources[t] # "ok"
          /\ tried[Len(tried)] = schema_info

C7_Witness ==
    /\ schema_info = "introspection"
    /\ tried = SchemaOrder
    /\ sources["meta"] = "empty"
    /\ sources["ontology"] = "error"

FromPack(sql) == \E i \in 1..Len(sql) : sql[i] = "export"

IsExtension(old, new) ==
    Len(new) = Len(old) + 1 /\ SubSeq(new, 1, Len(old)) = old

UnchangedOrExtended(old, new) == new = old \/ IsExtension(old, new)

\* C10: the step that records a request appends exactly one turn (its user,
\* question and final answer) to that user's transcript and touches no other
\* transcript; no other step on the way to a returned response changes a
\* transcript, and the response is returned only after the recording step;
\* no step of a request removes or alters a stored turn; only a reset
\* empties a transcript.
C10_TranscriptGrows ==
    [][ /\ (stage' = "RECORDED" /\ stage # "RECORDED") =>
              session_memory' =
                  [session_memory EXCEPT ![rq.user] =
                      Append(@, [user_id |-> rq.user, question |-> rq.question,
                                 answer |-> answer])]
        /\ (stage' = "RETURNED" /\ stage # "RETURNED") =>
              /\ stage = "RECORDED"
              /\ response'.answer = answer
        /\ (stage' # stage /\ stage' \notin {"RECORDED", "ERRORED"}) =>
              session_memory' = session_memory
        /\ stage' # stage =>
              \A u \in Users : UnchangedOrExtended(session_memory[u], session_memory'[u])
        /\ \A u \in Users :
              \/ UnchangedOrExtended(session_memory[u], session_memory'[u])
              \/ session_memory'[u] = <<>>
      ]_vars

C10_Witness ==
    /\ stage = "RETURNED"
    /\ Len(session_memory[rq.user]) = 2
    /\ session_memory[rq.user][2] =
          [user_id |-> rq.user, question |-> rq.question, answer |-> response.answer]
    /\ Len(rq.context) = 1


\* C11: resetSession(u) empties the transcript of u and leaves every other
\* user's transcript and the schema information unchanged; afterwards the
\* context of u stays empty until a request of u records its turn, and a
\* request received in between reads an empty context.
MemoryStepOutsideRequest ==
    session_memory' # session_memory /\ reqVars' = reqVars

C11_ResetFrame ==
    [][/\ MemoryStepOutsideRequest =>
            /\ \E u \in Users :
                 /\ session_memory'[u] = <<>>
                 /\ \A v \in Users \ {u} : session_memory'[v] = session_memory[v]
            /\ schemaVars' = schemaVars
       /\ \A u \in Users :
            (session_memory[u] = <<>> /\ session_memory'[u] # <<>>) =>
                (stage' = "RECORDED" /\ rq.user = u)
       /\ (stage' = "RECEIVED" /\ stage # "RECEIVED") =>
            rq'.context = get_context_text(rq'.user)]_vars

\* u1 was answered and then reset, while the turn of u2 is still there.
C11_Witness ==
    /\ stage = "RETURNED"
    /\ rq.user = "u1"
    /\ response.error = "none"
    /\ session_memory["u1"] = <<>>
    /\ session_memory["u2"] # <<>>

\* C14: synthesize calls the model at most twice for a request, the second
\* call being the one stricter retry made exactly when the first output was
\* empty or generic; when the model is unavailable, or the retry is still
\* degenerate, the answer is the deterministic template with the row count
\* (and the value when exactly one scalar was returned), made with no further
\* call; the answer is never empty.
Degenerate(o) == o \in {"generic", "empty"}

Synthesized == fn_pc = "answered"

C14_SynthesisBounded ==
    Synthesized =>
        LET results == fn_in.results
            o1 == fn_in.o1
            o2 == fn_in.o2
            nonEmpty == results.row_count > 0
            fellBack == o1 = "unavailable" \/ (Degenerate(o1) /\ o2 # "sentence")
        IN  /\ fn_out.calls <= 2
            /\ fn_out.calls = 2 <=> (nonEmpty /\ Degenerate(o1))
            /\ (nonEmpty /\ fellBack) =>
                  /\ fn_out.answer.kind = "explicit"
                  /\ fn_out.answer.n = results.row_count
                  /\ fn_out.answer.value =
                        IF results.row_count = 1 /\ results.columns = 1
                        THEN <<results.rows[1]>>
                        ELSE <<>>
                  /\ fn_out.calls = IF o1 = "unavailable" THEN 1 ELSE 2
            /\ fn_out.answer.kind # "none"

\* The retry was still generic and one scalar had been returned: the template
\* states the value.
C14_Witness ==
    /\ Synthesized
    /\ fn_in.o1 = "generic"
    /\ fn_in.o2 = "empty"
    /\ fn_out.calls = 2
    /\ fn_out.answer.kind = "explicit"
    /\ fn_out.answer.value = <<1>>

Generated == fn_pc = "generated"

FreeTextWithoutStatement(r) == r.kind = "text" /\ ~HasStatement(r.body)

CountQuotes(text) == Cardinality({i \in 1..Len(text) : text[i] = "'"})

\* Collapses each doubled quote of an escaped text.
RECURSIVE Unescape(_)
Unescape(text) ==
    IF text = <<>> THEN <<>>
    ELSE IF Len(text) >= 2 /\ text[1] = "'" /\ text[2] = "'"
    THEN <<"'">> \o Unescape(SubSeq(text, 3, Len(text)))
    ELSE <<text[1]>> \o Unescape(Tail(text))

\* sql is SELECT ' ... ' around the text, known patterns fixed, quotes doubled.
IsWrappedLiteral(sql, text) ==
    /\ Len(sql) = Len(text) + CountQuotes(text) + 3
    /\ sql[1] = "SELECT"
    /\ sql[2] = "'"
    /\ sql[Len(sql)] = "'"
    /\ Unescape(SubSeq(sql, 3, Len(sql) - 1)) = _apply_sql_fixes(text)

HoldsForbidden(text) == \E i \in 1..Len(text) : text[i] \in {";", "DROP"}

IsPrefix(a, b) == Len(a) <= Len(b) /\ SubSeq(b, 1, Len(a)) = a

TurnOf(th) == [user_id |-> th.user, question |-> th.question, answer |-> th.answer]

C12_SameUserSerialized ==
    \A t \in Threads :
        threads[t].stage \in {"RECORDED", "RETURNED"} =>
            IsPrefix(Append(threads[t].context, TurnOf(threads[t])),
                     session_memory[threads[t].user])

\* C13: a reload that runs while requests run swaps the cached snapshot in
\* one step: what a request is handed is a complete snapshot, the old one or
\* the new one, never a mixture of the two; a snapshot a request holds is not
\* changed in place; and a request is never kept from taking the snapshot,
\* reload in progress or not.
IsCompleteSnapshot(snap) ==
    \E tier \in Tiers, rev \in 0..MaxEdits : snap = Snapshot(tier, rev)

HandedSnapshotsComplete ==
    /\ IsCompleteSnapshot(heap[schema_cache])
    /\ \A r \in Readers : readers[r] # NoRef => IsCompleteSnapshot(heap[readers[r]])

HandedSnapshotsKept ==
    \A r \in Readers : readers[r] # NoRef => heap'[readers[r]] = heap[readers[r]]

ReadersNeverBlocked ==
    \A r \in Readers : readers[r] = NoRef => ENABLED getSchema(r)

IsLoginEndpoint(url) == url = <<"auth", "login">>

FetchOutcomeRight ==
    fetch.pc # "idle" =>
        /\ IF fetch.token # NoToken /\ ~IsLoginEndpoint(fetch.url)
           THEN fetch.authorization = <<"Bearer", fetch.token>>
           ELSE fetch.authorization = <<NoHeader>>
        /\ fetch.aborted => fetch.elapsed = API_TIMEOUT
        /\ (fetch.pc = "pending" /\ fetch.timer = "armed" /\ fetch.elapsed = API_TIMEOUT)
              => ENABLED TimerFires
        /\ (fetch.pc = "thrown" /\ fetch.aborted) => fetch.error = "APIError: Request timeout"
        /\ fetch.pc = "returned" => ~fetch.aborted
        /\ fetch.pc \in {"returned", "thrown"} => fetch.timer # "armed"

AbortOnlyWhilePending == (fetch'.aborted /\ ~fetch.aborted) => fetch.pc = "pending"

C19_FetchWithTimeout == []FetchOutcomeRight /\ [][AbortOnlyWhilePending]_vars

\* A call with a stored token ran into the timeout.
C19_Witness ==
    /\ fetch.pc = "thrown"
    /\ fetch.url = ASK
    /\ fetch.token = "tok1"
    /\ fetch.authorization = <<"Bearer", "tok1">>
    /\ fetch.aborted
    /\ fetch.error = "APIError: Request timeout"

\* C20: for every answer a client receives, the visualization shown is the
\* one of response.visualization when the response has one; a visualization
\* is inferred from the rows only when it has none and there is at least one
\* data row; when there is neither, nothing is shown for the answer and the
\* chart shown before stays as it was.
ValuesFromRows(chart, data) ==
    \A k \in 1..Len(chart.values) :
        \E i \in 1..Len(data.rows), j \in 1..Len(data.columns) :
            chart.values[k] = tryNumber(data.rows[i][j])

SidebarFollowsResponse ==
    bot_messages' = bot_messages + 1 =>
        LET d == bot_data'
        IN  /\ d.visualization # NoViz => sidebarChart' = d.visualization
            /\ (d.visualization = NoViz /\ sidebarChart' # sidebarChart) =>
                  /\ Len(d.data.rows) >= 1
                  /\ sidebarChart'.chart_type \in {"metric", "bar", "scatter"}
                  /\ ValuesFromRows(sidebarChart', d.data)
            /\ (d.visualization = NoViz /\ Len(d.data.rows) = 0) =>
                  sidebarChart' = sidebarChart

\* The chart of the analytics panel of the React App.
PanelChart(msgs, active, expanded) ==
    IF expanded /\ \E i \in 1..Len(msgs) : msgs[i].id = active
    THEN msgs[CHOOSE i \in 1..Len(msgs) :
                 msgs[i].id = active /\ \A j \in 1..(i - 1) : msgs[j].id # active].visualization
    ELSE NoChart

AppFollowsResponse ==
    answered' = answered + 1 =>
        LET r == ask_response'
            shown == messages'[Len(messages')].visualization
        IN  /\ r.visualization # NoViz =>
                  /\ shown.type = (IF r.visualization.chart_type \in {"pie", "line"}
                                    THEN r.visualization.chart_type ELSE "bar")
                  /\ Len(shown.data) = Len(r.visualization.labels)
                  /\ \A i \in 1..Len(shown.data) :
                        /\ shown.data[i].name = r.visualization.labels[i]
                        /\ shown.data[i].value = r.visualization.values[i]
            /\ r.visualization = NoViz =>
                  /\ shown = NoChart
                  /\ PanelChart(messages', activeMessageId', isAnalyticsExpanded')
                        = PanelChart(messages, activeMessageId, isAnalyticsExpanded)

StageRank(st) ==
    CASE st = "RECEIVED" -> 1
      [] st = "PACK_ATTEMPT" -> 2
      [] st = "SQL_GENERATED" -> 3
      [] st = "EXECUTING" -> 4
      [] st = "EXECUTED" -> 5
      [] st = "SYNTHESIZED" -> 6
      [] st = "RECORDED" -> 7
      [] st = "RETURNED" -> 8
      [] OTHER -> 0

StageStepInOrder ==
    stage' # stage =>
        \/ stage' = "RECEIVED" /\ stage \in {"IDLE"} \cup Finished
        \/ stage' = "ERRORED" /\ stage \in {"RECEIVED", "PACK_ATTEMPT", "SQL_GENERATED",
                                              "EXECUTING"}
        \/ /\ stage \notin Finished
           /\ stage' \notin {"RECEIVED", "ERRORED"}
           /\ StageRank(stage') > StageRank(stage)
           /\ stage' = "RETURNED" => stage = "RECORDED"
           /\ stage' = "RECORDED" => stage = "SYNTHESIZED"
           /\ stage' = "SYNTHESIZED" => stage = "EXECUTED"

\* While a request is in ERRORED nothing of it moves but the start of the
\* next request.
ErroredIsFinal ==
    (stage = "ERRORED" /\ stage' = "ERRORED") =>
        UNCHANGED <<reqVars, execVars>>

NoLaterStageAfterFailure ==
    (stage # "ERRORED" /\ stage' = "ERRORED") =>
        /\ ~gen'.success /\ path' = "legacy" =>
              (tx' = "none" /\ executed' = NoSql /\ exec' = NoExec)
        /\ answer' = NoAnswer
        /\ llm_calls'.answer = 0
        /\ session_memory' = session_memory
        /\ response'.error # "none"

C21_StagesInOrder ==
    [][StageStepInOrder /\ ErroredIsFinal /\ NoLaterStageAfterFailure]_vars

\* A request that went through the pack attempt, fell back to the legacy
\* generation and failed in the execution.
C21_Witness ==
    /\ stage = "ERRORED"
    /\ llm_calls.pack = 1
    /\ gen.success
    /\ exec = ErrorPayload
    /\ response.error = "ExecutionFailed"

\* C22: the only automatic retry inside a request is the second, stricter
\* pass of the answer synthesis: the legacy generation calls the model once
\* per request, a statement is sent to the database once per request, and a
\* failure is reported once, after which the request calls nothing again.
CallsBounded ==
    /\ llm_calls.sql <= 1
    /\ llm_calls.pack <= 1
    /\ llm_calls.answer <= 2

GeneratedOnce ==
    llm_calls'.sql > llm_calls.sql =>
        (llm_calls.sql = 0 /\ gen = NoGen /\ raw = NoRaw)

ExecutedOnce ==
    (tx' = "open" /\ tx # "open") =>
        (tx = "none" /\ executed = NoSql /\ exec = NoExec)

ReportedOnce ==
    (response'.error # "none" /\ response' # response) => response = NoResponse

NothingAfterReport ==
    (response.error # "none" /\ stage' # "RECEIVED") =>
        UNCHANGED <<llm_calls, gen, raw, executed, exec, tx, response>>

C22_OnlySynthesisRetries ==
    /\ [](CallsBounded)
    /\ [][GeneratedOnce /\ ExecutedOnce /\ ReportedOnce /\ NothingAfterReport]_vars

\* A request whose answer took the second pass, after one generation call.
C22_Witness ==
    /\ stage = "RETURNED"
    /\ llm_calls.sql = 1
    /\ llm_calls.answer = 2
    /\ response.error = "none"

\* C23: every accepted request eventually finishes: with the calls to the
\* model and to the database returning or timing out, a request that was
\* received reaches RETURNED or ERRORED and never stays in an intermediate
\* state.
InProgress ==
    stage \in {"RECEIVED", "PACK_ATTEMPT", "SQL_GENERATED", "EXECUTING", "EXECUTED",
               "SYNTHESIZED", "RECORDED"}

SendMessageStep ==
    send_calls'.text = send_calls.text + 1 =>
        IF messageInput \in {"", " "} \/ isLoading
        THEN UNCHANGED <<messageInput, isLoading, chatMessages, inflight>>
        ELSE /\ Len(chatMessages') = Len(chatMessages) + 1
             /\ SubSeq(chatMessages', 1, Len(chatMessages)) = chatMessages
             /\ chatMessages'[Len(chatMessages')] = [type |-> "user", text |-> messageInput]
             /\ isLoading'
             /\ inflight'.ask = inflight.ask + 1

AskSettledStep ==
    inflight'.ask < inflight.ask =>
        /\ inflight'.ask = inflight.ask - 1
        /\ Len(chatMessages') = Len(chatMessages) + 1
        /\ SubSeq(chatMessages', 1, Len(chatMessages)) = chatMessages
        /\ chatMessages'[Len(chatMessages')].type \in {"bot", "error"}
        /\ ~isLoading'

TextSendsAlone ==
    send_calls.voice = 0 =>
        /\ inflight.ask <= 1
        /\ isLoading <=> inflight.ask = 1

C24_SendMessage ==
    /\ [](TextSendsAlone)
    /\ [][SendMessageStep /\ AskSettledStep]_vars

\* A question is in flight and a second call of sendMessage, made with text
\* in the input field, did nothing.
C24_Witness ==
    /\ page = "chat"
    /\ send_calls = [text |-> 2, voice |-> 0]
    /\ inflight.ask = 1
    /\ isLoading
    /\ Len(chatMessages) = 1
    /\ messageInput = "q"

\* C25: in the React App isThinking is true in every state where a request
\* started by handleSendMessage has not settled, and false when none is
\* pending, for every interleaving of typed sends, suggested-question
\* clicks and saved-query runs.
C25_ThinkingReflectsPending ==
    page = "react" => (isThinking <=> BagCardinality(asks) > 0)

\* C26: in the message list of the React App every AI message, answer or
\* error, is immediately preceded by the user message whose question
\* produced it, after any sequence of sends, responses, new chats and
\* logouts, so that getUserQuestionForMessage returns the question that
\* belongs to the AI message.
PrecedingQuestion(msgs, i) ==
    IF i > 1 /\ msgs[i - 1].type = "user" THEN msgs[i - 1].content.of ELSE 0

C26_AnswerFollowsItsQuestion ==
    page = "react" =>
        \A i \in 1..Len(messages) :
            messages[i].type = "ai" =>
                PrecedingQuestion(messages, i) = messages[i].content.of

\* C27: while the analytics panel is open and no chart is locked, a change of
\* the message list makes the most recent AI message with a visualization the
\* active one; a chart the user expanded stays the active one for as long as
\* the panel stays open, unless the user expands another chart.
LatestWithViz(msgs) == CHOOSE i \in WithViz(msgs) : \A j \in WithViz(msgs) : j <= i

AutoUpdatedWhenUnlocked ==
    (/\ isAnalyticsExpanded' /\ ~userLockedChart'
     /\ messages' # messages /\ WithViz(messages') # {})
        => activeMessageId' = messages'[LatestWithViz(messages')].id

ManualExpand == \E i \in 1..Len(messages) : handleExpandChart(i)

LockedChartStays ==
    (/\ isAnalyticsExpanded /\ userLockedChart /\ isAnalyticsExpanded'
     /\ activeMessageId' # activeMessageId)
        => ManualExpand

PanelOpenOnlyLocked == page = "react" => (isAnalyticsExpanded => userLockedChart)

\* The Chat page of the second React front end (pages/Chat.jsx with
\* components/ChatInput.jsx): sql and data are numbered after the question
\* they answer, 0 standing for '' and [].
otherClientVars == <<fetchVars, page, vanillaVars, sessionVars, sidebarVars, appVars>>
exceptChatPage == <<otherClientVars, loginVars, useAuthVars>>
exceptLogin == <<otherClientVars, chatPageVars, useAuthVars>>
exceptUseAuth == <<otherClientVars, chatPageVars, loginVars>>

\* ChatInput: onChange of the textarea.
onChange(text) ==
    /\ page = "reactchat"
    /\ value # text
    /\ value' = text
    /\ UNCHANGED <<serverVars, exceptChatPage, Chat, requests>>

\* What ask resolves with for the n-th question; the answer may be blank.
AskResults(n) == {[sql |-> n, data |-> n, answer |-> a] : a \in Inputs}

\* Chat.onSend up to the await of ask.
onSend(question) ==
    /\ Chat' = [Chat EXCEPT !.error = "", !.loading = TRUE,
                            !.messages = Append(@, [role |-> "me", text |-> question])]
    /\ requests' = Append(requests, "pending")

\* ChatInput.send: nothing for a blank text, else onSend and the text cleared.
send ==
    LET q == Trim(value)
    IN  IF q = ""
        THEN UNCHANGED <<Chat, value, requests>>
        ELSE onSend(q) /\ value' = ""

\* The button's onClick; the button is disabled while loading.
SendButtonClick ==
    /\ page = "reactchat"
    /\ ~Chat.loading
    /\ Len(requests) < MaxSends
    /\ send
    /\ UNCHANGED <<serverVars, exceptChatPage>>

\* The textarea's onKeyDown with Ctrl or Cmd and Enter; the textarea is
\* never disabled.
SendKeyDown ==
    /\ page = "reactchat"
    /\ Len(requests) < MaxSends
    /\ send
    /\ UNCHANGED <<serverVars, exceptChatPage>>

\* Chat.onSend after ask resolved: setSql, setData, the answer appended
\* unless blank, setLoading(false).
AskReturns(n, resp) ==
    /\ page = "reactchat"
    /\ requests[n] = "pending"
    /\ requests' = [requests EXCEPT ![n] = "ok"]
    /\ Chat' = [Chat EXCEPT !.sql = resp.sql, !.data = resp.data,
                            !.messages = IF Trim(resp.answer) # ""
                                         THEN Append(@, [role |-> "ai", text |-> Trim(resp.answer)])
                                         ELSE @,
                            !.loading = FALSE]
    /\ UNCHANGED <<serverVars, exceptChatPage, value>>

\* Chat.onSend after ask threw: setError, setLoading(false).
AskThrows(n) ==
    /\ page = "reactchat"
    /\ requests[n] = "pending"
    /\ requests' = [requests EXCEPT ![n] = "failed"]
    /\ Chat' = [Chat EXCEPT !.error = "Ask failed", !.loading = FALSE]
    /\ UNCHANGED <<serverVars, exceptChatPage, value>>

InitChat ==
    /\ ServiceAtRest
    /\ FnOff
    /\ ThreadsOff
    /\ ReloadOff
    /\ FetchOff
    /\ page = "reactchat"
    /\ SidebarStart
    /\ AppStart
    /\ PagesOff

NextChat ==
    \/ \E text \in Inputs : onChange(text)
    \/ SendButtonClick
    \/ SendKeyDown
    \/ \E n \in 1..Len(requests) : \E resp \in AskResults(n) : AskReturns(n, resp)
    \/ \E n \in 1..Len(requests) : AskThrows(n)

SpecChat == InitChat /\ [][NextChat]_vars

\* C28: on the React Chat page at most one ask request is in flight, and once
\* every request has settled the SQL panel and the data table show the sql
\* and the data of the last question sent (where that question was answered).
AsksPending == {n \in 1..Len(requests) : requests[n] = "pending"}

OneAskInFlight == Cardinality(AsksPending) <= 1

PanelsShowLastQuestion ==
    (AsksPending = {} /\ requests # <<>> /\ requests[Len(requests)] = "ok")
        => (Chat.sql = Len(requests) /\ Chat.data = Len(requests))

C28_OneAskPanelsShowLast ==
    page = "reactchat" => (OneAskInFlight /\ PanelsShowLastQuestion)

\* The login page of the vanilla front end (login-script.js) and the
\* authentication check of index.html (script.js).
Credentials == Inputs \X Inputs
FetchOutcomes == {"ok", "rejected", "network"}
Cleared == [authToken |-> NoItem, tokenType |-> NoItem, userInfo |-> NoItem]

\* What an earlier visit can have left in localStorage.
StoredBefore ==
    {Cleared,
     [authToken |-> "t1", tokenType |-> "bearer", userInfo |-> NoItem],
     [authToken |-> "t1", tokenType |-> "bearer", userInfo |-> "u1"]}

\* The DOMContentLoaded listener: a stored authToken is verified, and the
\* form handler is set.
DOMContentLoaded ==
    /\ page = "login"
    /\ location = "login.html"
    /\ ~loginScript.loaded
    /\ loginScript' = [loginScript EXCEPT
            !.loaded = TRUE,
            !.verifyTokenAndRedirect = IF localStorage.authToken # NoItem THEN "me" ELSE "idle"]
    /\ UNCHANGED <<serverVars, exceptLogin, localStorage, location, authToken>>

\* handleLogin up to the await of the /auth/login fetch; the submit button is
\* disabled while it runs.
handleLoginSubmit(email, password) ==
    /\ page = "login"
    /\ location = "login.html"
    /\ loginScript.loaded
    /\ ~loginScript.disabled
    /\ loginScript.handleLogin \in {"idle", "finished"}
    /\ loginScript' =
          IF Trim(email) = "" \/ Trim(password) = ""
          THEN [loginScript EXCEPT !.error = "missing"]
          ELSE [loginScript EXCEPT !.disabled = TRUE, !.error = "none", !.handleLogin = "login"]
    /\ UNCHANGED <<serverVars, exceptLogin, localStorage, location, authToken>>

\* handleLogin after fetch and response.json(): authToken and tokenType are
\* stored for an ok response and getUserInfo is awaited; else data.detail or,
\* from the catch, the network error is shown and the finally enables the
\* button.
LoginResponds(outcome) ==
    /\ page = "login"
    /\ location = "login.html"
    /\ loginScript.handleLogin = "login"
    /\ IF outcome = "ok"
       THEN /\ localStorage' = [localStorage EXCEPT !.authToken = "t2", !.tokenType = "bearer"]
            /\ loginScript' = [loginScript EXCEPT !.handleLogin = "me"]
       ELSE /\ loginScript' = [loginScript EXCEPT !.handleLogin = "finished",
                    !.error = IF outcome = "rejected" THEN "detail" ELSE "network",
                    !.disabled = FALSE]
            /\ UNCHANGED localStorage
    /\ UNCHANGED <<serverVars, exceptLogin, location, authToken>>

\* getUserInfo: the body of an ok response, null for any other response and
\* for a fetch that threw.
getUserInfo(outcome, user) == IF outcome = "ok" THEN user ELSE NoItem

\* handleLogin after getUserInfo: userInfo is stored and the redirect timer
\* set when there is a user; the finally enables the button.
LoginUserInfo(outcome) ==
    /\ page = "login"
    /\ location = "login.html"
    /\ loginScript.handleLogin = "me"
    /\ LET userInfo == getUserInfo(outcome, "u2")
       IN  IF userInfo # NoItem
           THEN /\ localStorage' = [localStorage EXCEPT !.userInfo = userInfo]
                /\ loginScript' = [loginScript EXCEPT !.handleLogin = "finished",
                                                       !.timer = TRUE, !.disabled = FALSE]
           ELSE /\ loginScript' = [loginScript EXCEPT !.handleLogin = "finished",
                                                       !.disabled = FALSE]
                /\ UNCHANGED localStorage
    /\ UNCHANGED <<serverVars, exceptLogin, location, authToken>>

\* The timer of handleLogin fires: window.location.href = 'index.html'.
RedirectTimer ==
    /\ page = "login"
    /\ location = "login.html"
    /\ loginScript.timer
    /\ location' = "index.html"
    /\ loginScript' = [loginScript EXCEPT !.timer = FALSE]
    /\ UNCHANGED <<serverVars, exceptLogin, localStorage, authToken>>

\* verifyTokenAndRedirect after getUserInfo: userInfo is stored and the page
\* redirected when there is a user; otherwise the function ends, its catch
\* not being entered since getUserInfo does not throw.
verifyTokenAndRedirect(outcome) ==
    /\ page = "login"
    /\ location = "login.html"
    /\ loginScript.verifyTokenAndRedirect = "me"
    /\ LET userInfo == getUserInfo(outcome, "u1")
       IN  IF userInfo # NoItem
           THEN /\ localStorage' = [localStorage EXCEPT !.userInfo = userInfo]
                /\ location' = "index.html"
                /\ loginScript' = [loginScript EXCEPT !.verifyTokenAndRedirect = "redirected"]
           ELSE /\ loginScript' = [loginScript EXCEPT !.verifyTokenAndRedirect = "failed"]
                /\ UNCHANGED <<localStorage, location>>
    /\ UNCHANGED <<serverVars, exceptLogin, authToken>>

\* BiChatbot.checkAuthentication on index.html: back to login.html without
\* authToken or userInfo, else the token is taken.
checkAuthentication ==
    /\ page = "login"
    /\ location = "index.html"
    /\ authToken = NoItem
    /\ IF localStorage.authToken = NoItem \/ localStorage.userInfo = NoItem
       THEN /\ location' = "login.html"
            /\ loginScript' = LoginScriptStart
            /\ UNCHANGED authToken
       ELSE /\ authToken' = localStorage.authToken
            /\ UNCHANGED <<location, loginScript>>
    /\ UNCHANGED <<serverVars, exceptLogin, localStorage>>

\* BiChatbot.logout
logout ==
    /\ page = "login"
    /\ location = "index.html"
    /\ authToken # NoItem
    /\ localStorage' = Cleared
    /\ location' = "login.html"
    /\ loginScript' = LoginScriptStart
    /\ authToken' = NoItem
    /\ UNCHANGED <<serverVars, exceptLogin>>

InitLogin ==
    /\ ServiceAtRest
    /\ FnOff
    /\ ThreadsOff
    /\ ReloadOff
    /\ FetchOff
    /\ page = "login"
    /\ SidebarStart
    /\ AppStart
    /\ VanillaStart
    /\ SessionStart
    /\ ChatPageStart
    /\ UseAuthStart
    /\ localStorage \in StoredBefore
    /\ location = "login.html"
    /\ loginScript = LoginScriptStart
    /\ authToken = NoItem

NextLogin ==
    \/ DOMContentLoaded
    \/ \E c \in Credentials : handleLoginSubmit(c[1], c[2])
    \/ \E outcome \in FetchOutcomes : LoginResponds(outcome)
    \/ \E outcome \in FetchOutcomes : LoginUserInfo(outcome)
    \/ RedirectTimer
    \/ \E outcome \in FetchOutcomes : verifyTokenAndRedirect(outcome)
    \/ checkAuthentication
    \/ logout

SpecLogin == InitLogin /\ [][NextLogin]_vars

\* C29: on the login page a failed verification of the stored authToken
\* removes authToken, tokenType and userInfo and does not redirect, a
\* successful one stores userInfo and redirects to index.html; once
\* handleLogin or verifyTokenAndRedirect has finished, and neither is still
\* running, authToken is stored only together with userInfo.
VerificationFails ==
    /\ loginScript.verifyTokenAndRedirect = "me"
    /\ loginScript'.verifyTokenAndRedirect = "failed"

VerificationSucceeds ==
    /\ loginScript.verifyTokenAndRedirect = "me"
    /\ loginScript'.verifyTokenAndRedirect = "redirected"

VerificationOutcome ==
    /\ VerificationFails => (localStorage' = Cleared /\ location' = "login.html")
    /\ VerificationSucceeds => (localStorage'.userInfo # NoItem /\ location' = "index.html")

LoginFunctionsDone ==
    /\ location = "login.html"
    /\ loginScript.handleLogin \in {"idle", "finished"}
    /\ loginScript.verifyTokenAndRedirect \in {"idle", "failed"}
    /\ loginScript.handleLogin = "finished" \/ loginScript.verifyTokenAndRedirect = "failed"

TokenOnlyWithUserInfo ==
    LoginFunctionsDone => (localStorage.authToken # NoItem => localStorage.userInfo # NoItem)

C29_LoginStorage ==
    /\ [](page = "login" => TokenOnlyWithUserInfo)
    /\ [][page = "login" => VerificationOutcome]_vars

\* The useAuth hook of the second React front end (hooks/useAuth.js).
AccessTokens == {"t1", "t2"}

\* The cleanup of the previous fetchMe effect: canceled = true.
Cleanup(calls) == [k \in 1..Len(calls) |-> [calls[k] EXCEPT !.canceled = TRUE]]

\* The effect on [token] after a render with the token tok: fetchMe returns
\* at once without a token, else it sets loading, clears the error and
\* awaits me(tok).
fetchMe(state, calls, tok) ==
    IF tok = ""
    THEN [state |-> state, calls |-> calls]
    ELSE [state |-> [state EXCEPT !.loading = TRUE, !.error = ""],
          calls |-> Append(calls, [token |-> tok, canceled |-> FALSE, state |-> "pending"])]

\* A render after the state became next: when the token changed, the cleanup
\* of the previous effect runs and then the effect.
Rendered(next, calls) ==
    IF next.token # useAuth.token
    THEN fetchMe(next, Cleanup(calls), next.token)
    ELSE [state |-> next, calls |-> calls]

\* The hook mounts: useState reads the stored token, loading starts as
\* !!token, and the effect runs for the first time.
Mounted(stored) ==
    fetchMe([token |-> stored, user |-> NoItem, loading |-> stored # "", error |-> ""],
            <<>>, stored)

\* me(token) resolved: setUser(data.user) and setLoading(false) unless
\* canceled.
MeResolves(k) ==
    /\ page = "useauth"
    /\ me_calls[k].state = "pending"
    /\ LET calls == [me_calls EXCEPT ![k].state = "resolved"]
           next == IF me_calls[k].canceled THEN useAuth
                   ELSE [useAuth EXCEPT !.user = me_calls[k].token, !.loading = FALSE]
       IN  /\ useAuth' = Rendered(next, calls).state
           /\ me_calls' = Rendered(next, calls).calls
    /\ UNCHANGED <<serverVars, exceptUseAuth, access_token, sign_ins>>

\* me(token) threw: unless canceled, setError, setToken(''), the stored
\* token removed, and setLoading(false) in the finally.
MeRejects(k) ==
    /\ page = "useauth"
    /\ me_calls[k].state = "pending"
    /\ LET calls == [me_calls EXCEPT ![k].state = "rejected"]
           next == IF me_calls[k].canceled THEN useAuth
                   ELSE [useAuth EXCEPT !.error = "Unauthorized", !.token = "",
                                        !.loading = FALSE]
       IN  /\ useAuth' = Rendered(next, calls).state
           /\ me_calls' = Rendered(next, calls).calls
           /\ access_token' = IF me_calls[k].canceled THEN access_token ELSE ""
    /\ UNCHANGED <<serverVars, exceptUseAuth, sign_ins>>

\* signIn up to the await of login: setError('').
signIn ==
    /\ page = "useauth"
    /\ sign_ins.made < MaxSends
    /\ sign_ins' = [pending |-> sign_ins.pending + 1, made |-> sign_ins.made + 1]
    /\ useAuth' = [useAuth EXCEPT !.error = ""]
    /\ UNCHANGED <<serverVars, exceptUseAuth, access_token, me_calls>>

\* signIn after login resolved with the token t: setToken(t) and the token
\* stored.
LoginResolves(t) ==
    /\ page = "useauth"
    /\ sign_ins.pending > 0
    /\ sign_ins' = [sign_ins EXCEPT !.pending = @ - 1]
    /\ LET next == [useAuth EXCEPT !.token = t]
       IN  /\ useAuth' = Rendered(next, me_calls).state
           /\ me_calls' = Rendered(next, me_calls).calls
    /\ access_token' = t
    /\ UNCHANGED <<serverVars, exceptUseAuth>>

\* signIn after login threw: the error goes to the caller.
LoginRejects ==
    /\ page = "useauth"
    /\ sign_ins.pending > 0
    /\ sign_ins' = [sign_ins EXCEPT !.pending = @ - 1]
    /\ UNCHANGED <<serverVars, exceptUseAuth, useAuth, access_token, me_calls>>

\* signOut: setToken(''), setUser(null), the stored token removed.
signOut ==
    /\ page = "useauth"
    /\ LET next == [useAuth EXCEPT !.token = "", !.user = NoItem]
       IN  /\ useAuth' = Rendered(next, me_calls).state
           /\ me_calls' = Rendered(next, me_calls).calls
    /\ access_token' = ""
    /\ UNCHANGED <<serverVars, exceptUseAuth, sign_ins>>

InitUseAuth ==
    /\ ServiceAtRest
    /\ FnOff
    /\ ThreadsOff
    /\ ReloadOff
    /\ FetchOff
    /\ page = "useauth"
    /\ SidebarStart
    /\ AppStart
    /\ VanillaStart
    /\ SessionStart
    /\ ChatPageStart
    /\ LoginStart
    /\ access_token \in {"", "t1"}
    /\ useAuth = Mounted(access_token).state
    /\ me_calls = Mounted(access_token).calls
    /\ sign_ins = [pending |-> 0, made |-> 0]

NextUseAuth ==
    \/ \E k \in 1..Len(me_calls) : MeResolves(k)
    \/ \E k \in 1..Len(me_calls) : MeRejects(k)
    \/ signIn
    \/ \E t \in AccessTokens : LoginResolves(t)
    \/ LoginRejects
    \/ signOut

SpecUseAuth == InitUseAuth /\ [][NextUseAuth]_vars

\* C30: in useAuth a failed me(token) check of the current token clears the
\* token from the state and from localStorage and records the error; the
\* result of a me() call whose token has been replaced or signed out changes
\* nothing, and loading is true only while a me() call of the current token
\* is pending.
Settles(k) == me_calls[k].state = "pending" /\ me_calls'[k].state # "pending"

CurrentCheckFails ==
    \A k \in 1..Len(me_calls) :
        (Settles(k) /\ ~me_calls[k].canceled /\ me_calls'[k].state = "rejected")
            => (useAuth'.token = "" /\ access_token' = "" /\ useAuth'.error # "")

StaleResultIgnored ==
    \A k \in 1..Len(me_calls) :
        (Settles(k) /\ me_calls[k].canceled)
            => (useAuth' = useAuth /\ access_token' = access_token)

LoadingNotStuck ==
    useAuth.loading =>
        \E k \in 1..Len(me_calls) :
            me_calls[k].state = "pending" /\ ~me_calls[k].canceled

C30_UseAuthChecks ==
    /\ [](page = "useauth" => LoadingNotStuck)
    /\ [][page = "useauth" => (CurrentCheckFails /\ StaleResultIgnored)]_vars

====
